---- MODULE Spec2Model ----
(***************************************************************************)
(* A model of the folio command-line tool: the index synchronizer          *)
(* (src/utils/indexing.ts) and the validator (src/commands/validate, here  *)
(* the second half of src/commands/status.ts).                             *)
(*                                                                         *)
(* Text is modelled as a sequence of tokens.  A token stands for a         *)
(* substring of the file: one of the two marker strings, a run of          *)
(* whitespace, a piece of human-written text, or a line rendered by the    *)
(* synchronizer.  The markers are matched as whole tokens, as indexOf      *)
(* matches them as whole substrings.                                       *)
(***************************************************************************)
EXTENDS Integers, Sequences, FiniteSets, TLC

\* ------------------------------------------------------------------ bounds

\* Longest index file, in tokens, that exists before the first synchronization.
MaxLen == 3

\* Most files in the type directory.
MaxDocs == 2

\* Most runs of updateIndexFile in one behaviour.
MaxSyncs == 2

\* Most files in a directory of several documents that is validated.
MaxFiles == 3

\* Most documents in a directory whose index order is examined.
MaxSorted == 3

\* Most runs of folio new in one behaviour.
MaxNew == 3

\* ------------------------------------------------------- front matter values

\* A front-matter value as the YAML parser returns it: a type tag, the
\* decimal/string form of a scalar, and the elements of an array.
Num(s) == [t |-> "number", s |-> s, e |-> <<>>]
Str(s) == [t |-> "string", s |-> s, e |-> <<>>]
Null == [t |-> "null", s |-> "null", e |-> <<>>]

\* A Date object, as the YAML parser returns it for an unquoted timestamp;
\* s is what String() makes of it.
DateValue(s) == [t |-> "date", s |-> s, e |-> <<>>]
Arr(elems) == [t |-> "array", s |-> "", e |-> elems]

\* The key is not in the front matter.
Undefined == [t |-> "undefined", s |-> "undefined", e |-> <<>>]

\* The front matter of a file without a header.
EmptyFm == [key \in {} |-> Null]

\* The decimal form of the numbers the model reaches, String(n).
Numerals == [n \in (0..20) \cup (9999..10005) |-> ToString(n)]

IsNumeric(s) == \E n \in DOMAIN Numerals : Numerals[n] = s

NumOf(s) == CHOOSE n \in DOMAIN Numerals : Numerals[n] = s

\* JavaScript String(v), as a template literal applies it: a scalar gives
\* its text, null gives "null", undefined gives "undefined", and an array
\* gives its elements joined by commas, null and undefined elements giving
\* the empty string.
RECURSIVE JsString(_), JoinComma(_)
JsString(v) == IF v.t = "array" THEN JoinComma(v.e) ELSE v.s

JoinComma(elems) ==
  LET text(x) == IF x.t \in {"null", "undefined"} THEN "" ELSE JsString(x)
  IN IF Len(elems) = 0 THEN ""
     ELSE IF Len(elems) = 1 THEN text(elems[1])
     ELSE text(elems[1]) \o "," \o JoinComma(Tail(elems))

\* JavaScript truthiness of a front-matter value (undefined is handled by
\* the caller: an absent key is falsy).
Truthy(v) ==
  CASE v.t = "number" -> v.s # "0"
    [] v.t = "string" -> v.s # ""
    [] v.t = "null" -> FALSE
    [] v.t = "undefined" -> FALSE
    [] OTHER -> TRUE

\* fm[key] ?? fallback : the value unless it is undefined or null.
Has(fm, key) == key \in DOMAIN fm

Nullish(fm, key) == ~Has(fm, key) \/ fm[key].t = "null"

\* Code-unit order of the strings the model uses.
StrOrder ==
  <<"", ",x", "0", "1", "1,2", "10", "2", "2024-01-01", "3", "4", "5", "A",
    "AB", "B", "Blocked", "Done", "In Progress", "K-1", "Pick DB!",
    "Review", "To Do", "Use TLA", "accepted", "bogus", "k", "null", "open",
    "proposed", "soon", "undefined", "x", "x,", "x,z", "y", "z">>

StrRank(s) == CHOOSE i \in 1..Len(StrOrder) : StrOrder[i] = s

\* ToPrimitive with hint number: an array becomes the string String() makes
\* of it, every other value stays what it is.
ToPrimitive(v) == IF v.t = "array" THEN Str(JsString(v)) ELSE v

\* ToNumber of a primitive: nan for NaN, late for the time value of a Date
\* (milliseconds since 1970, beyond every number of the model), n for the
\* number.  The empty string and null are 0, undefined and a string that is
\* no numeral are NaN.
ToNumber(v) ==
  CASE v.t = "number" -> [nan |-> FALSE, late |-> FALSE, n |-> NumOf(v.s)]
    [] v.t = "null" -> [nan |-> FALSE, late |-> FALSE, n |-> 0]
    [] v.t = "date" -> [nan |-> FALSE, late |-> TRUE, n |-> 0]
    [] v.t = "string" /\ v.s = "" -> [nan |-> FALSE, late |-> FALSE, n |-> 0]
    [] v.t = "string" /\ IsNumeric(v.s) -> [nan |-> FALSE, late |-> FALSE, n |-> NumOf(v.s)]
    [] OTHER -> [nan |-> TRUE, late |-> FALSE, n |-> 0]

\* JavaScript a > b : both operands go through ToPrimitive; two strings
\* compare by code units, anything else compares as numbers, and a
\* comparison with NaN is false.
JsGreater(a, b) ==
  LET pa == ToPrimitive(a)
      pb == ToPrimitive(b)
      na == ToNumber(pa)
      nb == ToNumber(pb)
  IN IF pa.t = "string" /\ pb.t = "string"
     THEN StrRank(pa.s) > StrRank(pb.s)
     ELSE /\ ~na.nan
          /\ ~nb.nan
          /\ \/ na.late /\ ~nb.late
             \/ na.late = nb.late /\ na.n > nb.n

\* ------------------------------------------------------------------ tokens

START_MARKER == "<!-- FOLIO:INDEX:START -->"
END_MARKER == "<!-- FOLIO:INDEX:END -->"

Tok(kind, str) == [k |-> kind, s |-> str, cells |-> <<>>]

StartTok == Tok("marker", START_MARKER)
EndTok == Tok("marker", END_MARKER)
NL == Tok("ws", "\n")
Text(s) == Tok("text", s)

\* One cell of a rendered line: its text and, for a link, the target.
Cell(v, href) == [v |-> v, href |-> href]

Line(kind, cells) == [k |-> kind, s |-> "", cells |-> cells]

\* ---------------------------------------------------------- string helpers

\* String.prototype.indexOf on tokens: 0-based, -1 when absent.
IndexOf(c, tok) ==
  IF \E i \in 1..Len(c) : c[i] = tok
  THEN (CHOOSE i \in 1..Len(c) : c[i] = tok /\ \A j \in 1..(i - 1) : c[j] # tok) - 1
  ELSE -1

\* String.prototype.substring(from, to) and substring(from), 0-based.
Substring(c, from, to) == SubSeq(c, from + 1, to)

SubstringFrom(c, from) == SubSeq(c, from + 1, Len(c))

\* String.prototype.trim: leading and trailing whitespace is removed.
Trim(c) ==
  LET inner == {i \in 1..Len(c) : c[i].k # "ws"}
  IN IF inner = {} THEN <<>>
     ELSE LET lo == CHOOSE i \in inner : \A j \in inner : i <= j
              hi == CHOOSE i \in inner : \A j \in inner : j <= i
          IN SubSeq(c, lo, hi)

\* Array.prototype.join("\n") of rendered lines.
RECURSIVE JoinLines(_)
JoinLines(lines) ==
  IF Len(lines) = 0 THEN <<>>
  ELSE IF Len(lines) = 1 THEN <<lines[1]>>
  ELSE <<lines[1], NL>> \o JoinLines(Tail(lines))

\* --------------------------------------------------------------- the files

\* File names of the type directory and what the code reads off them.
DocNames == <<"0001-a.md", "0002-b.mdx", "my doc.md", "notes.txt">>

\* String(nextId).padStart(4, "0") of the numbers the model reaches.
Padded == <<"0001", "0002", "0003", "0004", "0005">>

\* slugify(title) of the titles given to folio new.
Slugify(title) ==
  CASE title = "Use TLA" -> "use-tla"
    [] title = "Pick DB!" -> "pick-db"

\* String(n).padStart(4, "0"): zeros in front until the length is four.
PadStart(n) ==
  IF n < 10 THEN "000" \o ToString(n)
  ELSE IF n < 100 THEN "00" \o ToString(n)
  ELSE IF n < 1000 THEN "0" \o ToString(n)
  ELSE ToString(n)

\* A file name built from the bare number.
NewName_Unpadded(n, slug) == ToString(n) \o "-" \o slug \o ".md"

\* The file name generateSequentialFilename returns for a number and a slug.
NewName(n, slug) == PadStart(n) \o "-" \o slug \o ".md"

\* The numbers and slugs of the file names folio new and adr renumber build.
NameNumbers == (1..20) \cup (9999..10005)

NameSlugs == {"use-tla", "pick-db", "a-md", "b-md", "pick-db-"}

GeneratedNames == {NewName(n, slug) : n \in NameNumbers, slug \in {"use-tla", "pick-db"}}

\* File names of the adr directory that begin with a backslash and the letter
\* d, and the names adr renumber gives them.
BackslashNames == {"\\d-a.md", "\\dd-b.md"}

RenumberedNames ==
  {NewName(n, slug) : n \in NameNumbers, slug \in {"a-md", "b-md", "pick-db-"}}

EndsWithMd(name) ==
  \/ name \in {"0001-a.md", "my doc.md", "0003-c.md", "0004-d.md", "index.md", "README.md"}
  \/ name \in {"0009-x.md", "9999-y.md", "12abc.md", "notes.md"}
  \/ name \in GeneratedNames
  \/ name \in BackslashNames
  \/ name \in RenumberedNames

\* The number each built file name begins with.
BuiltNumber ==
  [name \in GeneratedNames \cup RenumberedNames |->
     CHOOSE n \in NameNumbers : \E slug \in NameSlugs : name = NewName(n, slug)]

\* file.match(/^(\d+)-.*/) and parseInt of the digits: 0 stands for no match.
LeadingNumber(name) ==
  IF name \in DOMAIN BuiltNumber
  THEN BuiltNumber[name]
  ELSE CASE name = "0001-a.md" -> 1
         [] name = "0002-b.mdx" -> 2
         [] name = "0003-c.md" -> 3
         [] name = "0004-d.md" -> 4
         [] name = "0009-x.md" -> 9
         [] name = "12-z.txt" -> 12
         [] name = "9999-y.md" -> 9999
         [] OTHER -> 0

EndsWithMdx(name) == name = "0002-b.mdx"

\* encodeURI of a file name: a space becomes %20 and a backslash %5C;
\* letters, digits, hyphens and dots stay.
EncodeURI(name) ==
  CASE name = "my doc.md" -> "my%20doc.md"
    [] name = "\\d-a.md" -> "%5Cd-a.md"
    [] name = "\\dd-b.md" -> "%5Cdd-b.md"
    [] OTHER -> name

\* A file of the type directory: its name, whether gray-matter can parse
\* its header, and the parsed front matter.
DocFile(name, parses, fm) == [name |-> name, parses |-> parses, fm |-> fm]

\* The text of a file, as far as equality goes: two files hold the same
\* text only when both carry the same text tag.
ContentOf(f) == IF "text" \in DOMAIN f THEN f.text ELSE f.name

NoFile == [exists |-> FALSE, content |-> <<>>]
FileOf(c) == [exists |-> TRUE, content |-> c]

\* ------------------------------------------------------------ configuration

\* config.indexing of folio.config.ts: the columns of the table and the
\* format.  The three configurations cover a table whose link column is
\* "title", a table without a "title" column, and a list.
IndexingChoices ==
  { [columns |-> <<"id", "title", "status">>, format |-> "table"],
    [columns |-> <<"id", "status">>, format |-> "table"],
    [columns |-> <<"id", "title", "status">>, format |-> "list"] }

\* docTypeConfig.path of the type and the title the synchronizer derives
\* from it: hyphens and underscores become spaces, each word is capitalized.
TypePath == "sprint-tickets"

\* path.replace(/[-_]/g, " ").replace(/\b\w/g, l => l.toUpperCase()) on the
\* paths of the configuration: a slash stays and begins a new word.
TitleOf(path) ==
  CASE path = "sprint-tickets" -> "Sprint Tickets"
    [] path = "adr" -> "Adr"
    [] path = "adrs" -> "Adrs"
    [] path = "tickets" -> "Tickets"
    [] path = "my_notes" -> "My Notes"
    [] path = "06-sprint-tickets" -> "06 Sprint Tickets"
    [] path = "06-sprint-tickets/sprints" -> "06 Sprint Tickets/Sprints"
    [] path = "01-vision-strategy" -> "01 Vision Strategy"
    [] path = "02-architecture-design" -> "02 Architecture Design"
    [] path = "01-product-and-planning/epics" -> "01 Product And Planning/Epics"
    [] path = "02-architecture-and-design/adrs" -> "02 Architecture And Design/Adrs"

\* ----------------------------------------------------------------- rendering

\* generateMarkdownTable
generateMarkdownTable(documents, columns) ==
  LET linkColumn ==
        IF \E i \in 1..Len(columns) : columns[i] = "title"
        THEN "title" ELSE columns[1]
      header == Line("header", [i \in 1..Len(columns) |-> Cell(columns[i], "")])
      separator == Line("separator", [i \in 1..Len(columns) |-> Cell("---", "")])
      row(doc) ==
        Line("row",
             [i \in 1..Len(columns) |->
                LET col == columns[i]
                    value == IF Nullish(doc.frontmatter, col) THEN "N/A"
                             ELSE JsString(doc.frontmatter[col])
                IN IF col = linkColumn
                   THEN Cell(value, EncodeURI(doc.filename))
                   ELSE Cell(value, "")])
  IN JoinLines(<<header, separator>> \o [i \in 1..Len(documents) |-> row(documents[i])])

\* generateMarkdownList: the link, and after it " (Status: <status>)" when
\* the status is truthy, whatever its text (an empty array gives
\* " (Status: )"), and nothing otherwise.
generateMarkdownList(documents) ==
  LET item(doc) ==
        LET title == IF Nullish(doc.frontmatter, "title") THEN doc.filename
                     ELSE JsString(doc.frontmatter.title)
            status == IF Has(doc.frontmatter, "status") /\ Truthy(doc.frontmatter.status)
                      THEN " (Status: " \o JsString(doc.frontmatter.status) \o ")"
                      ELSE ""
        IN Line("item", <<Cell(title, EncodeURI(doc.filename)), Cell(status, "")>>)
  IN JoinLines([i \in 1..Len(documents) |-> item(documents[i])])

\* ------------------------------------------------------------------ sorting

\* The comparator of documents.sort: 1 when a's id is greater, else -1.
CompareById(a, b) == IF JsGreater(a.frontmatter.id, b.frontmatter.id) THEN 1 ELSE -1

Reverse(s) == [i \in 1..Len(s) |-> s[Len(s) + 1 - i]]

\* The run that begins the array: strictly descending when the second
\* element compares below the first, else non-descending.
RunIsDescending(arr) == CompareById(arr[2], arr[1]) < 0

RunLength(arr) ==
  LET n == Len(arr)
      desc == RunIsDescending(arr)
      extends(r) == \A idx \in 3..r :
                      IF desc THEN CompareById(arr[idx], arr[idx - 1]) < 0
                      ELSE CompareById(arr[idx], arr[idx - 1]) >= 0
  IN CHOOSE r \in 2..n : extends(r) /\ (r = n \/ ~extends(r + 1))

\* Binary search of the insertion point of pivot in arr[left..right), 0-based.
RECURSIVE InsertionPoint(_, _, _, _)
InsertionPoint(arr, pivot, left, right) ==
  IF left >= right THEN left
  ELSE LET mid == left + ((right - left) \div 2)
       IN IF CompareById(pivot, arr[mid + 1]) < 0
          THEN InsertionPoint(arr, pivot, left, mid)
          ELSE InsertionPoint(arr, pivot, mid + 1, right)

\* Binary insertion sort of arr[start..], the elements before start sorted.
RECURSIVE BinaryInsertionSort(_, _)
BinaryInsertionSort(arr, start) ==
  IF start > Len(arr) THEN arr
  ELSE LET pivot == arr[start]
           left == InsertionPoint(arr, pivot, 0, start - 1)
           moved == SubSeq(arr, 1, left) \o <<pivot>> \o SubSeq(arr, left + 1, start - 1)
                      \o SubSeq(arr, start + 1, Len(arr))
       IN BinaryInsertionSort(moved, start + 1)

\* Array.prototype.sort with the comparator above, as the engine sorts a
\* short array: the leading run is found (and reversed when descending),
\* the rest is inserted by binary insertion.
SortById(documents) ==
  IF Len(documents) < 2 THEN documents
  ELSE LET r == RunLength(documents)
           run == SubSeq(documents, 1, r)
           made == (IF RunIsDescending(documents) THEN Reverse(run) ELSE run)
                     \o SubSeq(documents, r + 1, Len(documents))
       IN BinaryInsertionSort(made, r + 1)

\* documents.every((d) => d.frontmatter.id)
EveryHasId(documents) ==
  \A i \in 1..Len(documents) :
    Has(documents[i].frontmatter, "id") /\ Truthy(documents[i].frontmatter.id)

\* ----------------------------------------------------------- updateIndexFile

IsDocFile(name) == (EndsWithMd(name) \/ EndsWithMdx(name)) /\ name # "index.md"

\* Step 1: the files of the directory that are documents, in listing order.
DocFilesOf(listing) == SelectSeq(listing, LAMBDA f : IsDocFile(f.name))

\* Step 2 and the sort: the parsed documents in the order they are rendered.
DocumentsOf(listing) ==
  LET files == DocFilesOf(listing)
      documents == [i \in 1..Len(files) |->
                      [filename |-> files[i].name, frontmatter |-> files[i].fm]]
  IN IF EveryHasId(documents) THEN SortById(documents) ELSE documents

\* A renderer without the branch for the empty document set.
NewIndexContent_NoPlaceholder(dir, cfg) ==
  IF cfg.format = "list"
  THEN generateMarkdownList(DocumentsOf(dir))
  ELSE generateMarkdownTable(DocumentsOf(dir), cfg.columns)

\* Step 3: the rendered index.
NewIndexContent(listing, indexing) ==
  LET documents == DocumentsOf(listing)
  IN IF Len(documents) = 0
     THEN <<Tok("placeholder", "No documents found for this type.")>>
     ELSE IF indexing.format = "list"
          THEN generateMarkdownList(documents)
          ELSE generateMarkdownTable(documents, indexing.columns)

\* The rendered region wrapped in the two markers.
FullNewContent(newIndexContent) ==
  <<StartTok, NL, NL>> \o newIndexContent \o <<NL, NL, EndTok>>

\* Step 4: the merge of the region into the existing file.
MergeIndex(existing, fullNewContent) ==
  IF existing.exists
  THEN LET existingContent == existing.content
           startMarkerIndex == IndexOf(existingContent, StartTok)
           endMarkerIndex == IndexOf(existingContent, EndTok)
       IN IF startMarkerIndex # -1 /\ endMarkerIndex # -1
          THEN Substring(existingContent, 0, startMarkerIndex)
                 \o fullNewContent
                 \o SubstringFrom(existingContent, endMarkerIndex + 1)
          ELSE Trim(existingContent) \o <<NL, NL>> \o fullNewContent
  ELSE <<Tok("heading", TitleOf(TypePath)), NL, NL>> \o fullNewContent

\* gray-matter throws on a header it cannot parse; Promise.all then rejects
\* and nothing is written.
ParseThrows(listing) ==
  \E i \in 1..Len(DocFilesOf(listing)) : ~DocFilesOf(listing)[i].parses

\* The file updateIndexFile writes (step 5).
WrittenIndex(listing, indexing, existing) ==
  FileOf(MergeIndex(existing, FullNewContent(NewIndexContent(listing, indexing))))

\* ------------------------------------------------------------ the schema

\* A field of a front-matter schema (FrontmatterField).  An option that is
\* not set is the empty sequence, the empty string, 0 or hasMinimum FALSE.
Field(type) ==
  [type |-> type, required |-> FALSE, unique |-> FALSE, isArray |-> FALSE,
   enum |-> <<>>, pattern |-> "", minLength |-> 0,
   hasMinimum |-> FALSE, minimum |-> 0, default |-> "none"]

\* The fields of the schema in declaration order.
FieldOrder == <<"id", "title", "status", "priority", "tags", "date", "code">>

\* docTypeConfig.frontmatter of the document type.
Schema ==
  [ id |-> [Field("number") EXCEPT !.required = TRUE, !.unique = TRUE],
    title |-> [Field("string") EXCEPT !.required = TRUE, !.minLength = 2],
    status |-> [Field("string") EXCEPT !.enum = <<Str("proposed"), Str("accepted")>>,
                                       !.default = "literal"],
    priority |-> [Field("number") EXCEPT !.enum = <<Num("1"), Num("2")>>],
    tags |-> [Field("string") EXCEPT !.isArray = TRUE, !.enum = <<Str("x"), Str("y")>>],
    date |-> [Field("date") EXCEPT !.default = "generator"],
    code |-> [Field("string") EXCEPT !.unique = TRUE, !.pattern = "^K-[0-9]$"] ]

\* types.ticket.frontmatter of the shipped folio.config.ts.
TicketOrder ==
  <<"id", "title", "sprint", "epic", "status", "owner", "estimate", "depends_on",
    "source_spec">>

TicketSchema ==
  [ id |-> [Field("string") EXCEPT !.required = TRUE, !.unique = TRUE,
                                   !.pattern = "^[A-Z]{2,}-\\d{3,}$"],
    title |-> [Field("string") EXCEPT !.required = TRUE, !.minLength = 10],
    sprint |-> Field("string"),
    epic |-> [Field("string") EXCEPT !.pattern = "^EPIC-\\d{3,}$"],
    status |-> [Field("string") EXCEPT
                  !.required = TRUE, !.default = "literal",
                  !.enum = <<Str("To Do"), Str("In Progress"), Str("Review"),
                             Str("Blocked"), Str("Done")>>],
    owner |-> Field("string"),
    estimate |-> Field("number"),
    depends_on |-> [Field("string") EXCEPT !.isArray = TRUE],
    source_spec |-> Field("string") ]

\* types.adr.frontmatter of the shipped folio.config.ts.
AdrOrder ==
  <<"id", "title", "status", "date", "authors", "reviewers", "tags",
    "related_requirements", "supersedes", "review_date">>

AdrSchema ==
  [ id |-> [Field("number") EXCEPT !.required = TRUE, !.unique = TRUE],
    title |-> [Field("string") EXCEPT !.required = TRUE, !.minLength = 10],
    status |-> [Field("string") EXCEPT
                  !.required = TRUE, !.default = "literal",
                  !.enum = <<Str("Proposed"), Str("Accepted"), Str("Rejected"),
                             Str("Deprecated"), Str("Superseded")>>],
    date |-> [Field("date") EXCEPT !.required = TRUE, !.default = "generator"],
    authors |-> [Field("string") EXCEPT !.isArray = TRUE, !.required = TRUE],
    reviewers |-> [Field("string") EXCEPT !.isArray = TRUE],
    tags |-> [Field("string") EXCEPT !.isArray = TRUE],
    related_requirements |-> [Field("string") EXCEPT !.isArray = TRUE],
    supersedes |-> Field("number"),
    review_date |-> Field("date") ]

\* for (const fieldName in schemaConfig): the fields of a schema in
\* declaration order.
FieldOrderOf(schema) ==
  LET orders == {FieldOrder, TicketOrder, AdrOrder}
      named(o) == {o[i] : i \in 1..Len(o)}
  IN IF \E o \in orders : named(o) = DOMAIN schema
     THEN CHOOSE o \in orders : named(o) = DOMAIN schema
     ELSE SelectSeq(FieldOrder, LAMBDA name : name \in DOMAIN schema)

\* String facts the validators read: the length in code units, and the
\* regular expressions.
StrLen(s) == Len(s)

Matches(pattern, s) ==
  CASE pattern = "^K-[0-9]$" -> s \in {"K-1", "K-2"}
    [] pattern = "^\\d{4}-\\d{2}-\\d{2}$" -> s \in {"2024-01-01", "2023-05-05"}
    [] pattern = "^[A-Z]{2,}-\\d{3,}$" -> s \in {"BE-001", "FE-102", "EPIC-001"}
    [] pattern = "^EPIC-\\d{3,}$" -> s = "EPIC-001"
    [] OTHER -> FALSE

\* ------------------------------------------------------------- buildZodSchema

Issue(field, index, code) == [field |-> field, index |-> index, code |-> code, keys |-> {}]

EnumStrings(field) == [i \in 1..Len(field.enum) |-> JsString(field.enum[i])]

\* field.enum is set and its first value, as a string, is not empty: the
\* validator of the base type is replaced by z.enum of the strings.
UsesEnum(field) == Len(field.enum) > 0 /\ EnumStrings(field)[1] # ""

\* The issue codes of the validator of one value (not an array) of a field.
ValueCodes(field, v) ==
  IF UsesEnum(field)
  THEN IF v.t # "string" THEN <<"invalid_type">>
       ELSE IF \E i \in 1..Len(field.enum) : EnumStrings(field)[i] = v.s
            THEN <<>> ELSE <<"invalid_enum_value">>
  ELSE CASE field.type = "string" ->
              IF v.t # "string" THEN <<"invalid_type">>
              ELSE (IF field.minLength # 0 /\ StrLen(v.s) < field.minLength
                    THEN <<"too_small">> ELSE <<>>)
                   \o (IF field.pattern # "" /\ ~Matches(field.pattern, v.s)
                       THEN <<"invalid_string">> ELSE <<>>)
         [] field.type = "number" ->
              IF v.t # "number" THEN <<"invalid_type">>
              ELSE IF field.hasMinimum /\ NumOf(v.s) < field.minimum
                   THEN <<"too_small">> ELSE <<>>
         [] field.type = "boolean" ->
              IF v.t # "boolean" THEN <<"invalid_type">> ELSE <<>>
         [] field.type = "date" ->
              IF v.t # "string" THEN <<"invalid_type">>
              ELSE IF ~Matches("^\\d{4}-\\d{2}-\\d{2}$", v.s)
                   THEN <<"invalid_string">> ELSE <<>>

RECURSIVE ElementIssues(_, _, _, _)
ElementIssues(name, field, elems, i) ==
  IF i > Len(elems) THEN <<>>
  ELSE [j \in 1..Len(ValueCodes(field, elems[i])) |->
          Issue(name, i - 1, ValueCodes(field, elems[i])[j])]
       \o ElementIssues(name, field, elems, i + 1)

\* The issues of one field of a document: the validator built for the field
\* (base type, enum, array, optional) applied to data[name].
FieldIssues(name, field, data) ==
  IF ~Has(data, name)
  THEN IF field.required THEN <<Issue(name, -1, "invalid_type")>> ELSE <<>>
  ELSE IF field.isArray
       THEN IF data[name].t # "array" THEN <<Issue(name, -1, "invalid_type")>>
            ELSE ElementIssues(name, field, data[name].e, 1)
       ELSE [j \in 1..Len(ValueCodes(field, data[name])) |->
               Issue(name, -1, ValueCodes(field, data[name])[j])]

\* How often the validator of a field invokes the field's default generator:
\* buildZodSchema never reads field.default.
GeneratorCalls(name, field, data) == 0

\* An object schema without .strict(): unknown keys are stripped silently.
UnrecognizedKeys_Open(schema, data) == {}

\* .strict(): the keys of the data the schema does not declare.
UnrecognizedKeys(schema, data) == DOMAIN data \ DOMAIN schema

RECURSIVE ShapeIssues(_, _, _)
ShapeIssues(schema, data, i) ==
  IF i > Len(FieldOrderOf(schema)) THEN <<>>
  ELSE FieldIssues(FieldOrderOf(schema)[i], schema[FieldOrderOf(schema)[i]], data)
       \o ShapeIssues(schema, data, i + 1)

RECURSIVE SumCalls(_, _, _)
SumCalls(schema, data, i) ==
  IF i > Len(FieldOrderOf(schema)) THEN 0
  ELSE GeneratorCalls(FieldOrderOf(schema)[i], schema[FieldOrderOf(schema)[i]], data)
       + SumCalls(schema, data, i + 1)

\* A parse that aborts at the first issue.
ParseIssues_FirstOnly(schema, data) ==
  LET all == ShapeIssues(schema, data, 1)
             \o (IF UnrecognizedKeys(schema, data) # {}
                 THEN <<[field |-> "", index |-> -1, code |-> "unrecognized_keys",
                         keys |-> UnrecognizedKeys(schema, data)]>>
                 ELSE <<>>)
  IN SubSeq(all, 1, IF Len(all) > 0 THEN 1 ELSE 0)

\* The issues schema.safeParse(data) collects: those of every field, in
\* declaration order, then the unrecognized keys.
ParseIssues(schema, data) ==
  ShapeIssues(schema, data, 1)
  \o (IF UnrecognizedKeys(schema, data) # {}
      THEN <<[field |-> "", index |-> -1, code |-> "unrecognized_keys",
              keys |-> UnrecognizedKeys(schema, data)]>>
      ELSE <<>>)

\* schema.safeParse(data)
SafeParse(schema, data) ==
  [ success |-> ParseIssues(schema, data) = <<>>,
    issues |-> ParseIssues(schema, data),
    data |-> data,
    generatorCalls |-> SumCalls(schema, data, 1) ]

\* ------------------------------------------------------------ validateDocType

\* One entry of the errors list.  kind is "invalid" (safeParse failed, with
\* its issues), "duplicate" (a unique value seen before, with the field and
\* the file it was first seen in) or "unreadable" (the file did not parse).
InvalidError(file, issues) ==
  [kind |-> "invalid", file |-> file, issues |-> issues, field |-> "", firstSeen |-> ""]

DuplicateError(file, field, firstSeen) ==
  [kind |-> "duplicate", file |-> file, issues |-> <<>>, field |-> field,
   firstSeen |-> firstSeen]

UnreadableError(file) ==
  [kind |-> "unreadable", file |-> file, issues |-> <<>>, field |-> "", firstSeen |-> ""]

\* The fields that get a map of seen values (uniqueValueMaps), in declaration
\* order.
UniqueFields(schema) == SelectSeq(FieldOrderOf(schema), LAMBDA name : schema[name].unique)

\* uniqueValueMaps, as the set of its entries (field, value, file).  A Map
\* compares keys by identity: an array is never equal to another array.
MapHas(seen, field, value) ==
  /\ value.t # "array"
  /\ \E m \in seen : m.field = field /\ m.value = value

MapGet(seen, field, value) ==
  (CHOOSE m \in seen : m.field = field /\ m.value = value).file

\* The loop over uniqueValueMaps for one document that passed safeParse.
RECURSIVE CheckUnique(_, _, _, _)
CheckUnique(fields, data, file, acc) ==
  IF Len(fields) = 0 THEN acc
  ELSE LET fieldName == Head(fields)
       IN IF Nullish(data, fieldName)
          THEN CheckUnique(Tail(fields), data, file, acc)
          ELSE IF MapHas(acc.seen, fieldName, data[fieldName])
               THEN CheckUnique(Tail(fields), data, file,
                      [acc EXCEPT !.errors =
                         Append(@, DuplicateError(file, fieldName,
                                     MapGet(acc.seen, fieldName, data[fieldName])))])
               ELSE CheckUnique(Tail(fields), data, file,
                      [acc EXCEPT !.seen =
                         @ \cup {[field |-> fieldName, value |-> data[fieldName],
                                  file |-> file]}])

\* matter(content), called without options, keeps a cache keyed by the
\* text: the file object enters the cache before its header is parsed, so
\* a header that does not parse throws on the first read of a text and, on
\* a later read of the same text in the same process, the cached object
\* is returned, with empty data.
MatterThrows(f, cache) == ~f.parses /\ ContentOf(f) \notin cache

MatterData(f) == IF f.parses THEN f.fm ELSE EmptyFm

\* A loop body that runs the uniqueness check also for a document that
\* failed safeParse.
ValidateFile_PerField(schema, f, acc) ==
  IF ~(EndsWithMd(f.name) \/ EndsWithMdx(f.name)) THEN acc
  ELSE LET counted == [acc EXCEPT !.fileCount = @ + 1,
                                  !.cache = @ \cup {ContentOf(f)}]
       IN IF MatterThrows(f, acc.cache)
          THEN [counted EXCEPT !.errors = Append(@, UnreadableError(f.name))]
          ELSE LET result == SafeParse(schema, MatterData(f))
                   logged == [counted EXCEPT !.parsed =
                                Append(@, [file |-> f.name, success |-> result.success,
                                           data |-> result.data,
                                           generatorCalls |-> result.generatorCalls])]
                   noted == IF result.success THEN logged
                            ELSE [logged EXCEPT !.errors =
                                    Append(@, InvalidError(f.name, result.issues))]
               IN CheckUnique(UniqueFields(schema), result.data, f.name, noted)

\* The body of the loop over the files for one file.
ValidateFile(schema, f, acc) ==
  IF ~(EndsWithMd(f.name) \/ EndsWithMdx(f.name)) THEN acc
  ELSE LET counted == [acc EXCEPT !.fileCount = @ + 1,
                                  !.cache = @ \cup {ContentOf(f)}]
       IN IF MatterThrows(f, acc.cache)
          THEN [counted EXCEPT !.errors = Append(@, UnreadableError(f.name))]
          ELSE LET result == SafeParse(schema, MatterData(f))
                   logged == [counted EXCEPT !.parsed =
                                Append(@, [file |-> f.name, success |-> result.success,
                                           data |-> result.data,
                                           generatorCalls |-> result.generatorCalls])]
               IN IF ~result.success
                  THEN [logged EXCEPT !.errors =
                          Append(@, InvalidError(f.name, result.issues))]
                  ELSE CheckUnique(UniqueFields(schema), result.data, f.name, logged)

RECURSIVE ValidateFiles(_, _, _)
ValidateFiles(schema, files, acc) ==
  IF Len(files) = 0 THEN acc
  ELSE ValidateFiles(schema, Tail(files), ValidateFile(schema, Head(files), acc))

\* What validateDocType holds before its loop: no file counted, no error,
\* empty uniqueValueMaps.
NoValidation ==
  [fileCount |-> 0, errors |-> <<>>, seen |-> {}, parsed |-> <<>>, cache |-> {}]

\* validateDocType: the file count and the errors it returns, with the
\* values it had seen (uniqueValueMaps), what safeParse returned per file
\* and the texts matter() had cached.
validateDocType(schema, files) == ValidateFiles(schema, files, NoValidation)

\* ------------------------------------------------------------------- state

VARIABLES
  listing,     \* the type directory: its files in readdir order
  indexFile,   \* index.md of the type directory
  indexing,    \* config.indexing
  original,    \* index.md as the author left it before the first run
  syncs,       \* the runs of updateIndexFile so far, oldest first
  report,      \* what the last run of validateDocType returned
  cmd,         \* the last command that reported: its name and outcome
  running      \* per terminal, the command in flight and the step it is at

vars == <<listing, indexFile, indexing, original, syncs, report, cmd, running>>

\* No command has run.
NoCmd == [name |-> "none"]

\* No validation has run.
NoReport ==
  [ran |-> FALSE, fileCount |-> 0, errors |-> <<>>, seen |-> {}, parsed |-> <<>>,
   cache |-> {}]

\* All sequences over S of length at most n.
RECURSIVE SeqsUpTo(_, _)
SeqsUpTo(S, n) ==
  IF n = 0 THEN {<<>>}
  ELSE SeqsUpTo(S, n - 1) \cup
       {Append(q, x) : q \in {r \in SeqsUpTo(S, n - 1) : Len(r) = n - 1}, x \in S}

\* What an author may have typed into index.md: either marker, whitespace, text.
HumanAlphabet == {StartTok, EndTok, NL, Text("before")}

\* Files an author may have put into the type directory.
IndexFiles ==
  { DocFile("0001-a.md", TRUE, [id |-> Num("2"), title |-> Str("A"), status |-> Str("open")]),
    DocFile("0002-b.mdx", TRUE, [id |-> Num("1"), title |-> Str("B")]),
    DocFile("my doc.md", TRUE, [title |-> Str("x"), status |-> Null]),
    DocFile("my doc.md", FALSE, EmptyFm) }

DistinctNames(l) == \A i, j \in 1..Len(l) : l[i].name = l[j].name => i = j

Listings == {l \in SeqsUpTo(IndexFiles, MaxDocs) : DistinctNames(l)}

\* ---------------------------------------------------------------- processes

\* The commands run as operating-system processes, one per terminal.  Each
\* await of a command is a step of its process; nothing in the code holds a
\* lock, so the steps of two processes interleave freely.
Procs == {1, 2}

\* The terminal of a specification whose commands run one after another.
Terminal == {1}

Titles == {"Use TLA", "Pick DB!"}

\* The document types of config.types.
Types == {"adr"}

NoDoc == DocFile("", TRUE, EmptyFm)

\* A terminal that runs no command.  A command keeps what it has read so
\* far: the names readdir returned and the place of its loop in them, the
\* document it is about to write, the documents it read, the index file it
\* read, what validateDocType has gathered, and what it will report; stale
\* tells that the index file was written by another command since this one
\* read it.
Idle ==
  [pc |-> "idle", name |-> "none", type |-> "", args |-> <<>>, outcome |-> "",
   names |-> <<>>, at |-> 0, file |-> NoDoc, docs |-> <<>>, existing |-> NoFile,
   pending |-> {}, stale |-> FALSE, acc |-> NoValidation, report |-> NoCmd]

AllIdle == [p \in Procs |-> Idle]

Busy == {p \in Procs : running[p].pc # "idle"}

\* The commands so far that reached the index synchronizer or are on
\* their way to it.
Started == Len(syncs) + Cardinality(Busy)

\* The files of the directory: the documents and, once it exists, index.md.
\* The index file holds no front matter, so gray-matter yields empty data
\* for it.
OnDisk ==
  IF indexFile.exists THEN Append(listing, DocFile("index.md", TRUE, EmptyFm)) ELSE listing

\* The directory with one more file.  The place of the file in the order
\* readdir returns is up to the file system.
InsertAt(files, pos, f) == SubSeq(files, 1, pos) \o <<f>> \o SubSeq(files, pos + 1, Len(files))

\* fs.readdir(typeDir): what a call can return.  The order of the entries
\* is the order of the file system, so index.md stands at any place among
\* the documents.
Readdir ==
  IF indexFile.exists
  THEN {InsertAt(listing, pos, DocFile("index.md", TRUE, EmptyFm)) : pos \in 0..Len(listing)}
  ELSE {listing}

NamesOf(dir) == [i \in 1..Len(dir) |-> dir[i].name]

\* The file of the name is in the directory: fs.readFile finds it.
Present(dir, name) == \E i \in 1..Len(dir) : dir[i].name = name

FileNamed(dir, name) == dir[CHOOSE i \in 1..Len(dir) : dir[i].name = name]

\* The loops of handleStatus and validateDocType skip the names that end
\* neither in .md nor in .mdx: the place of the first name from i on that
\* they read, 0 when there is none.
NextMd(names, i) ==
  LET rest == {k \in i..Len(names) : EndsWithMd(names[k]) \/ EndsWithMdx(names[k])}
  IN IF rest = {} THEN 0 ELSE CHOOSE k \in rest : \A m \in rest : k <= m

\* new Date().toISOString().split("T")[0] on the day of the run.
Today == "2024-01-01"

\* handleStatus, step 4: the status is set, and so is the first of the
\* fields dateModified, date, updated_at that the schema declares.
StatusUpdate(schema, fm, newStatus) ==
  LET withStatus == ("status" :> Str(newStatus)) @@ fm
      dated == SelectSeq(<<"dateModified", "date", "updated_at">>,
                         LAMBDA name : Has(schema, name))
  IN IF Len(dated) > 0 THEN (dated[1] :> Str(Today)) @@ withStatus ELSE withStatus

\* The document types of the configuration folio status runs under, all
\* four configured with the path of the one type directory: adr with a
\* status enum and a date field, ticket with its own enum and no date
\* field, plain with a free status, note without a status field.
StatusSchemas ==
  [adr |-> Schema,
   ticket |-> TicketSchema,
   plain |-> [id |-> [Field("number") EXCEPT !.required = TRUE],
              status |-> Field("string")],
   note |-> [id |-> [Field("number") EXCEPT !.required = TRUE]]]

\* Step 2 of handleStatus: the checks on the type, the status field and
\* the enum.
StatusChecks(type, newStatus) ==
  IF type \notin DOMAIN StatusSchemas THEN "unknown-type"
  ELSE IF ~Has(StatusSchemas[type], "status") THEN "no-status-field"
  ELSE IF /\ Len(StatusSchemas[type].status.enum) > 0
          /\ \A i \in 1..Len(StatusSchemas[type].status.enum) :
               StatusSchemas[type].status.enum[i] # Str(newStatus)
       THEN "invalid-status"
       ELSE "ok"

\* docMatter.data.id && String(docMatter.data.id) === id
IsTarget(f, id) ==
  /\ Has(f.fm, "id")
  /\ Truthy(f.fm.id)
  /\ JsString(f.fm.id) = id

\* new Date() at the time of the run, written by matter.stringify as a YAML
\* timestamp and read back by matter() as a Date.
Now == DateValue("Mon Jan 01 2024 00:00:00 GMT+0000 (Coordinated Universal Time)")

\* A generator that numbers the new file by the count of the files.
generateFilenameByCount(files, title) == NewName(Len(files) + 1, Slugify(title))

\* generateSequentialFilename: one more than the highest number that
\* begins a file name of the directory, padded, then the slug of the title.
generateSequentialFilename(files, title) ==
  LET numbers == {LeadingNumber(files[i].name) : i \in 1..Len(files)} \cup {0}
      maxId == CHOOSE n \in numbers : \A k \in numbers : k <= n
  IN NewName(maxId + 1, Slugify(title))

\* The files docs/_templates/<template> may hold: the ADR template that
\* ships with folio (src/templates/markdown/adr.md), which begins with a
\* front matter block, a template that is a body only, and no file.
TemplateFiles == {"adr.md", "body.md", "none"}

\* The front matter matter() finds in the compiled template.  The keys id,
\* title, status and date of the shipped template are overridden by the
\* data of handleNew whatever Handlebars put there.
TemplateData(template, data) ==
  IF template = "adr.md"
  THEN [id |-> data.id, title |-> data.title, status |-> Str("Proposed"),
        date |-> Str(data.date.s),
        authors |-> Arr(<<Str("Your Name")>>),
        reviewers |-> Arr(<<Str("")>>),
        tags |-> Arr(<<Str("component-name"), Str("high-level-category")>>),
        related_requirements |-> Arr(<<Str("TICKET-123")>>),
        supersedes |-> Str(""),
        review_date |-> Str("")]
  ELSE EmptyFm

\* handleNew, steps 3 to 5: the document written for a file name and a
\* title.  matter.stringify parses the compiled template and lays the data
\* over the front matter it finds there: Object.assign({}, file.data, data).
NewDocument(filename, title, template) ==
  LET frontmatterData ==
        [id |-> Num(ToString(LeadingNumber(filename))), title |-> Str(title),
         date |-> Now, status |-> Str("proposed")]
  IN DocFile(filename, TRUE, frontmatterData @@ TemplateData(template, frontmatterData))

\* config.types of the project folio new runs in: the ADR type of the
\* shipped configuration.
ConfiguredSchemas == [adr |-> AdrSchema]

\* handleGenerateNav writes README.md, the directory-level index, into the
\* documentation directories.  The type directory gets one (a README.md it
\* holds is replaced) unless it is not among those directories or the
\* command fails: handleNew swallows the error.  readdir lists upper-case
\* names before the digits and lower-case letters of the other files or
\* after them.
GeneratedReadme == DocFile("README.md", TRUE, EmptyFm)

handleGenerateNav(dir) ==
  {dir} \cup
  (IF \E i \in 1..Len(dir) : dir[i].name = "README.md"
   THEN {[i \in 1..Len(dir) |->
            IF dir[i].name = "README.md" THEN GeneratedReadme ELSE dir[i]]}
   ELSE {Append(dir, GeneratedReadme)})

\* What is kept of one run of updateIndexFile: the directory it listed
\* with the documents as it read them, the index file it read and the one
\* it wrote, whether it threw, whether the write of another run fell
\* between its read and its write, and the command that called it.
SyncRecord(job, dir, before, after, threw, overlapped) ==
  [listing |-> dir, before |-> before, after |-> after, threw |-> threw,
   overlapped |-> overlapped, by |-> [name |-> job.name, outcome |-> job.outcome]]

\* Where a command goes on after updateIndexFile returned or threw: folio
\* new generates the navigation, every other command ends.
AfterIndex(job) ==
  IF job.name = "new" THEN [job EXCEPT !.pc = "nav", !.stale = FALSE] ELSE Idle

\* What the caller reports when updateIndexFile throws: handleStatus,
\* handleRenumber and handleDeprecate await it inside their try and exit
\* with 1 from the catch; handleNew catches and warns; a bare call reports
\* nothing.
AfterThrow(job) ==
  IF job.name \in {"status", "renumber", "deprecate"}
  THEN [job.report EXCEPT !.exitCode = 1] ELSE cmd

\* updateIndexFile, step 1: fs.readdir and the filter of its result.  The
\* command keeps docFiles, the entries that end in .md or .mdx less
\* index.md, as they are at this moment; only their names are known to
\* it, and every one of them is still to be read.
TakeListing(p, job) ==
  \E dir \in Readdir :
    LET docFiles == DocFilesOf(dir)
    IN running' = [running EXCEPT ![p] =
                     [job EXCEPT !.pc = "parse", !.docs = docFiles,
                                 !.pending = 1..Len(docFiles)]]

\* A call of updateIndexFile from a terminal.
UpdateIndexFile(p) ==
  /\ running[p].pc = "idle"
  /\ Started < MaxSyncs
  /\ TakeListing(p, [Idle EXCEPT !.name = "update"])
  /\ UNCHANGED <<listing, indexFile, indexing, original, syncs, report, cmd>>

\* updateIndexFile on a directory that is also validated as a whole.
SyncDirectory(p) ==
  /\ running[p].pc = "idle"
  /\ Started < MaxSyncs
  /\ TakeListing(p, [Idle EXCEPT !.name = "sync"])
  /\ cmd' = [name |-> "sync"]
  /\ UNCHANGED <<listing, indexFile, indexing, original, syncs, report>>

\* updateIndexFile called by a command that has written its document.
ListDocs(p) ==
  /\ running[p].pc = "list"
  /\ TakeListing(p, running[p])
  /\ UNCHANGED <<listing, indexFile, indexing, original, syncs, report, cmd>>

\* updateIndexFile, step 2: Promise.all over fs.readFile and matter() of
\* the document files readdir named.  The reads are started together and
\* end one at a time in any order; each file is read as it is when its read
\* ends.  A file that is gone makes readFile throw, a header that does not
\* parse makes gray-matter throw; Promise.all then rejects at once and
\* nothing is written.  Without a document file Promise.all resolves with
\* nothing read.
ReadDocs(p) ==
  LET job == running[p]
  IN /\ job.pc = "parse"
     /\ IF job.pending = {}
        THEN /\ running' = [running EXCEPT ![p] = [job EXCEPT !.pc = "read"]]
             /\ UNCHANGED <<syncs, cmd>>
        ELSE \E i \in job.pending :
               LET name == job.docs[i].name
                   gone == ~Present(listing, name)
                   f == IF gone THEN job.docs[i] ELSE FileNamed(listing, name)
                   docs == [job.docs EXCEPT ![i] = f]
                   left == job.pending \ {i}
               IN IF gone \/ ~f.parses
                  THEN /\ syncs' = Append(syncs, SyncRecord(job, docs, indexFile, indexFile,
                                                            TRUE, FALSE))
                       /\ running' = [running EXCEPT ![p] = AfterIndex(job)]
                       /\ cmd' = AfterThrow(job)
                  ELSE /\ running' = [running EXCEPT ![p] =
                            [job EXCEPT !.docs = docs, !.pending = left,
                                        !.pc = IF left = {} THEN "read" ELSE "parse"]]
                       /\ UNCHANGED <<syncs, cmd>>
     /\ UNCHANGED <<listing, indexFile, indexing, original, report>>

\* A read of index.md that fails when the file does not exist yet.
ReadIndex_NeedsIndex(p) ==
  /\ running[p].pc = "read"
  /\ IF indexFile.exists
     THEN /\ running' = [running EXCEPT ![p] = [@ EXCEPT !.pc = "write", !.existing = indexFile]]
          /\ UNCHANGED <<syncs, cmd>>
     ELSE /\ syncs' = Append(syncs, SyncRecord(running[p], running[p].docs,
                                               indexFile, indexFile, TRUE, FALSE))
          /\ running' = [running EXCEPT ![p] = AfterIndex(@)]
          /\ cmd' = AfterThrow(running[p])
  /\ UNCHANGED <<listing, indexFile, indexing, original, report>>

\* updateIndexFile, step 4: the existing index.md is read; a file that
\* does not exist reads as none.
ReadIndex(p) ==
  /\ running[p].pc = "read"
  /\ running' = [running EXCEPT ![p] = [@ EXCEPT !.pc = "write", !.existing = indexFile]]
  /\ UNCHANGED <<listing, indexFile, indexing, original, syncs, report, cmd>>

\* updateIndexFile, step 5: the content merged from the index file read
\* and the documents read is written.  Every other command that has read
\* the index file and not yet written it now holds stale content, and the
\* record of this run tells whether it wrote from stale content itself.
WriteIndex(p) ==
  /\ running[p].pc = "write"
  /\ indexFile' = WrittenIndex(running[p].docs, indexing, running[p].existing)
  /\ syncs' = Append(syncs, SyncRecord(running[p], running[p].docs, running[p].existing,
                                       indexFile', FALSE, running[p].stale))
  /\ running' = [q \in Procs |->
                   IF q = p THEN AfterIndex(running[p])
                   ELSE IF running[q].pc = "write" THEN [running[q] EXCEPT !.stale = TRUE]
                        ELSE running[q]]
  /\ UNCHANGED <<listing, indexing, original, report, cmd>>

\* What folio status reports: the outcome, the directory and the index
\* file when the command started and as they are when it reports, and the
\* exit code.  Only the catch block of handleStatus exits with 1.
StatusReport(type, id, newStatus, outcome, at, before, after, index) ==
  [name |-> "status", outcome |-> outcome, type |-> type, id |-> id,
   newStatus |-> newStatus, at |-> at, before |-> before, after |-> after,
   indexBefore |-> index, indexAfter |-> indexFile,
   exitCode |-> IF outcome = "threw" THEN 1 ELSE 0]

\* The report of a command in flight, brought up to the present.
Reported(job, outcome, at, after) ==
  StatusReport(job.type, job.args[1], job.args[2], outcome, at,
               job.report.before, after, job.report.indexBefore)

\* folio status that goes on to regenerate the index when its checks fail.
StatusCommand_AlwaysSync(p, type, id, newStatus) ==
  LET outcome == StatusChecks(type, newStatus)
      start == StatusReport(type, id, newStatus, outcome, 0, listing, listing, indexFile)
      rejected == [Idle EXCEPT !.name = "status", !.type = type, !.args = <<id, newStatus>>,
                               !.outcome = outcome, !.report = start]
  IN /\ running[p].pc = "idle"
     /\ Started < MaxSyncs
     /\ IF outcome # "ok"
        THEN /\ cmd' = start
             /\ running' = [running EXCEPT ![p] = [rejected EXCEPT !.pc = "list"]]
        ELSE \E dir \in Readdir :
               LET job == [rejected EXCEPT !.names = NamesOf(dir),
                                           !.at = NextMd(NamesOf(dir), 1)]
               IN IF job.at = 0
                  THEN /\ cmd' = [start EXCEPT !.outcome = "missing"]
                       /\ UNCHANGED running
                  ELSE /\ running' = [running EXCEPT ![p] = [job EXCEPT !.pc = "search"]]
                       /\ UNCHANGED cmd
     /\ UNCHANGED <<listing, indexFile, indexing, original, syncs, report>>

\* folio status <type> <id> <newStatus>, steps 1 to 3 up to readdir: the
\* checks on the type, the status field and the enum end a rejected command
\* here; otherwise the directory is listed, and a directory without a
\* Markdown file leaves nothing to search.
StatusCommand(p, type, id, newStatus) ==
  LET outcome == StatusChecks(type, newStatus)
      start == StatusReport(type, id, newStatus, outcome, 0, listing, listing, indexFile)
      rejected == [Idle EXCEPT !.name = "status", !.type = type, !.args = <<id, newStatus>>,
                               !.outcome = outcome, !.report = start]
  IN /\ running[p].pc = "idle"
     /\ Started < MaxSyncs
     /\ IF outcome # "ok"
        THEN /\ cmd' = start
             /\ UNCHANGED running
        ELSE \E dir \in Readdir :
               LET job == [rejected EXCEPT !.names = NamesOf(dir),
                                           !.at = NextMd(NamesOf(dir), 1)]
               IN IF job.at = 0
                  THEN /\ cmd' = [start EXCEPT !.outcome = "missing"]
                       /\ UNCHANGED running
                  ELSE /\ running' = [running EXCEPT ![p] = [job EXCEPT !.pc = "search"]]
                       /\ UNCHANGED cmd
     /\ UNCHANGED <<listing, indexFile, indexing, original, syncs, report>>

\* handleStatus, step 3, one turn of the loop: the next Markdown file of
\* the names listed is read and parsed as it is now.  A file that is gone
\* or does not parse throws into the catch block; the file whose id is the
\* id given ends the search, with the front matter of step 4 computed from
\* what was read; after the last file the command reports that it found
\* nothing.
SearchDoc(p) ==
  LET job == running[p]
      name == job.names[job.at]
      f == FileNamed(OnDisk, name)
      next == NextMd(job.names, job.at + 1)
  IN /\ job.pc = "search"
     /\ IF ~Present(OnDisk, name) \/ ~f.parses
        THEN /\ cmd' = Reported(job, "threw", 0, listing)
             /\ running' = [running EXCEPT ![p] = Idle]
        ELSE IF IsTarget(f, job.args[1])
        THEN /\ running' = [running EXCEPT ![p] =
                  [job EXCEPT !.pc = "rewrite", !.outcome = "found",
                              !.file = [f EXCEPT !.fm =
                                 StatusUpdate(StatusSchemas[job.type], @, job.args[2])]]]
             /\ UNCHANGED cmd
        ELSE IF next = 0
        THEN /\ cmd' = Reported(job, "missing", 0, listing)
             /\ running' = [running EXCEPT ![p] = Idle]
        ELSE /\ running' = [running EXCEPT ![p] = [job EXCEPT !.at = next]]
             /\ UNCHANGED cmd
     /\ UNCHANGED <<listing, indexFile, indexing, original, syncs, report>>

\* handleStatus, step 5: the document is written back with the front matter
\* computed from what was read; the call of updateIndexFile follows.  A
\* file that has gone in the meantime is created anew, at a place in the
\* directory that is up to the file system.
RewriteDoc(p) ==
  LET job == running[p]
      present == Present(listing, job.file.name)
      at == IF present THEN CHOOSE i \in 1..Len(listing) : listing[i].name = job.file.name
            ELSE 0
  IN /\ job.pc = "rewrite"
     /\ \E pos \in 0..Len(listing) :
          LET after == IF present THEN [listing EXCEPT ![at] = job.file]
                       ELSE InsertAt(listing, pos, job.file)
              found == Reported(job, "found", IF present THEN at ELSE pos + 1, after)
          IN /\ present => pos = 0
             /\ listing' = after
             /\ cmd' = found
             /\ running' = [running EXCEPT ![p] = [job EXCEPT !.pc = "list", !.report = found]]
     /\ UNCHANGED <<indexFile, indexing, original, syncs, report>>

\* handleNew, steps 1 to 5: the configuration is loaded and
\* generateSequentialFilename reads the directory; the id and the content
\* follow from the name and the template.  An unknown type makes the
\* command fail at once, a template that is not there before it writes.
GenerateName(p, type, title, template) ==
  /\ running[p].pc = "idle"
  /\ Started < MaxNew
  /\ IF type \notin DOMAIN ConfiguredSchemas \/ template = "none"
     THEN UNCHANGED vars
     ELSE /\ running' = [running EXCEPT ![p] =
               [Idle EXCEPT !.pc = "named", !.name = "new", !.type = type,
                            !.args = <<title>>,
                            !.file = NewDocument(generateSequentialFilename(listing, title),
                                                 title, template)]]
          /\ UNCHANGED <<listing, indexFile, indexing, original, syncs, report, cmd>>

\* handleNew, step 6: writeDocFile; the write fails when the name exists
\* and the command ends.  The place of the file in the order readdir
\* returns is up to the file system.
WriteDoc(p) ==
  LET job == running[p]
  IN /\ job.pc = "named"
     /\ IF \E i \in 1..Len(listing) : listing[i].name = job.file.name
        THEN /\ running' = [running EXCEPT ![p] = Idle]
             /\ UNCHANGED <<listing, cmd>>
        ELSE /\ \E pos \in 0..Len(listing) : listing' = InsertAt(listing, pos, job.file)
             /\ cmd' = [name |-> "new", type |-> job.type, created |-> job.file,
                        before |-> listing]
             /\ running' = [running EXCEPT ![p] = [job EXCEPT !.pc = "list"]]
     /\ UNCHANGED <<indexFile, indexing, original, syncs, report>>

\* handleNew, last step: the navigation files are generated.
GenerateNav(p) ==
  /\ running[p].pc = "nav"
  /\ listing' \in handleGenerateNav(listing)
  /\ running' = [running EXCEPT ![p] = Idle]
  /\ UNCHANGED <<indexFile, indexing, original, syncs, report, cmd>>

\* A file of the type directory is deleted by hand.
DeleteFile(i) ==
  /\ listing' = SubSeq(listing, 1, i - 1) \o SubSeq(listing, i + 1, Len(listing))
  /\ cmd' = [name |-> "delete"]
  /\ UNCHANGED <<indexFile, indexing, original, syncs, report, running>>

InitIndex ==
  /\ listing \in Listings
  /\ indexFile \in {NoFile} \cup {FileOf(c) : c \in SeqsUpTo(HumanAlphabet, MaxLen)}
  /\ indexing \in IndexingChoices
  /\ original = indexFile
  /\ syncs = <<>>
  /\ report = NoReport
  /\ running = AllIdle
  /\ cmd = NoCmd

\* Calls of updateIndexFile one after another on a directory that stays
\* as it is; the commands that change documents between the calls have
\* specifications of their own.
NextIndex ==
  \E p \in Terminal :
    \/ UpdateIndexFile(p)
    \/ ReadDocs(p)
    \/ ReadIndex(p)
    \/ WriteIndex(p)

SpecIndex == InitIndex /\ [][NextIndex]_vars

\* ------------------------------------------------- index synchronizer: claims

\* The region a run renders from the directory it read.
RegionOf(run) == FullNewContent(NewIndexContent(run.listing, indexing))

HasMarker(c, tok) == IndexOf(c, tok) # -1

\* The human-written text of a file: every text token outside the managed
\* region, in order.  A file has a managed region when its first start
\* marker comes before its first end marker.
HumanText(file) ==
  LET c == file.content
      s == IndexOf(c, StartTok)
      e == IndexOf(c, EndTok)
      outside == IF s # -1 /\ e # -1 /\ s < e
                 THEN Substring(c, 0, s) \o SubstringFrom(c, e + 1)
                 ELSE c
  IN SelectSeq(outside, LAMBDA tok : tok.k = "text")

\* C1: two runs of updateIndexFile in a row (the second reads the file the
\* first wrote) over the same documents write the same index file, whatever
\* the index file held before the first run.
C1_Idempotent ==
  \A i \in 1..(Len(syncs) - 1) :
    (/\ ~syncs[i].threw
     /\ ~syncs[i + 1].threw
     /\ syncs[i].listing = syncs[i + 1].listing
     /\ syncs[i + 1].before = syncs[i].after)
      => syncs[i + 1].after = syncs[i].after

\* C2: when the existing index file holds a start marker and, after it, an
\* end marker, the written file is the existing file with the substring from
\* the start marker through the end marker replaced by the rendered region:
\* the bytes before the start marker and after the end marker are unchanged.
C2_ReplacesRegion ==
  \A i \in 1..Len(syncs) :
    LET run == syncs[i]
        c == run.before.content
    IN (/\ ~run.threw
        /\ run.before.exists
        /\ \E p, q \in 1..Len(c) : p < q /\ c[p] = StartTok /\ c[q] = EndTok)
       => \E p, q \in 1..Len(c) :
            /\ p < q /\ c[p] = StartTok /\ c[q] = EndTok
            /\ run.after.content
                 = SubSeq(c, 1, p - 1) \o RegionOf(run) \o SubSeq(c, q + 1, Len(c))

\* C3: once the index has been synchronized, the text of the index file is
\* the human-written text of the file the author left (the text outside its
\* managed region), nothing deleted, altered or duplicated, after any number
\* of runs and for every file, also one with a single marker or with the
\* end marker first.
C3_HumanTextSurvives ==
  (original.exists /\ \E i \in 1..Len(syncs) : ~syncs[i].threw)
    => SelectSeq(indexFile.content, LAMBDA tok : tok.k = "text") = HumanText(original)

\* C4: a file without markers is written back exactly as it was, leading
\* and trailing whitespace included, followed by a blank line and the
\* region.
C4_AppendKeepsContent ==
  \A i \in 1..Len(syncs) :
    LET run == syncs[i]
        c == run.before.content
    IN (/\ ~run.threw
        /\ run.before.exists
        /\ ~HasMarker(c, StartTok)
        /\ ~HasMarker(c, EndTok))
       => run.after.content = c \o <<NL, NL>> \o RegionOf(run)

       /\ run.after.content = Trim(c) \o <<NL, NL>> \o RegionOf(run)

\* C13: a run over documents that all parse completes and writes the index
\* file, whatever the index file held: when there was none, the file written
\* is the generated title, a blank line and the region in its markers; when
\* there was one, the file written holds the region in its markers.
C13_TotalOnIndexFile ==
  \A i \in 1..Len(syncs) :
    LET run == syncs[i]
        region == RegionOf(run)
    IN ~ParseThrows(run.listing) =>
         /\ ~run.threw
         /\ run.after.exists
         /\ ~run.before.exists =>
              run.after.content
                = <<Tok("heading", "Sprint Tickets"), NL, NL>> \o region
         /\ \E p \in 0..(Len(run.after.content) - Len(region)) :
              SubSeq(run.after.content, p + 1, p + Len(region)) = region

\* C13: a first run that found no index file and created it, and a second
\* run over the file the first one wrote.
C13_Witness ==
  /\ Len(syncs) = 2
  /\ ~syncs[1].before.exists
  /\ ~syncs[1].threw
  /\ syncs[1].after.content
       = <<Tok("heading", "Sprint Tickets"), NL, NL>> \o RegionOf(syncs[1])
  /\ ~syncs[2].threw
  /\ syncs[2].after.exists

\* ------------------------------------------------------- the validation run

\* The keys a document may carry (the fields of the schema and one the schema
\* does not declare) and, for each, the values an author may give it.
AuthorKeys == <<"id", "title", "status", "priority", "tags", "date", "code", "extra">>

AuthorValues(key) ==
  CASE key = "id" -> {Undefined, Num("1"), Str("1")}
    [] key = "title" -> {Undefined, Str("AB"), Str("A")}
    [] key = "status" -> {Undefined, Str("proposed"), Str("bogus"), Null}
    [] key = "priority" -> {Undefined, Num("1"), Num("3"), Str("1")}
    [] key = "tags" -> {Undefined, Arr(<<Str("x")>>), Arr(<<Str("x"), Str("z")>>), Str("x")}
    [] key = "date" -> {Undefined, Str("2024-01-01"), Str("soon")}
    [] key = "code" -> {Undefined, Str("K-1"), Str("k")}
    [] key = "extra" -> {Undefined, Str("x"), Num("1")}

\* Every front matter over AuthorKeys[i..].
RECURSIVE FrontMatters(_)
FrontMatters(i) ==
  IF i > Len(AuthorKeys) THEN {EmptyFm}
  ELSE {IF v = Undefined THEN fm ELSE (AuthorKeys[i] :> v) @@ fm :
          fm \in FrontMatters(i + 1), v \in AuthorValues(AuthorKeys[i])}

\* Directories of one document with any front matter.
SingleListings == {<<DocFile("0001-a.md", TRUE, fm)>> : fm \in FrontMatters(1)}

\* The files of a directory of several documents: documents that differ in
\* the unique fields id and code and in whether another field is valid, a
\* file gray-matter cannot parse, and a file that is no document.
RunFiles ==
  { [kind |-> "doc", parses |-> TRUE, fm |-> [id |-> Num("1"), title |-> Str("AB")]],
    [kind |-> "doc", parses |-> TRUE, fm |-> [id |-> Num("2"), title |-> Str("AB")]],
    [kind |-> "doc", parses |-> TRUE, fm |-> [id |-> Num("1"), title |-> Str("A")]],
    [kind |-> "doc", parses |-> TRUE, fm |-> [id |-> Str("1"), title |-> Str("AB")]],
    [kind |-> "doc", parses |-> TRUE,
     fm |-> [id |-> Num("2"), title |-> Str("AB"), code |-> Str("K-1")]],
    [kind |-> "doc", parses |-> TRUE,
     fm |-> [id |-> Num("3"), title |-> Str("AB"), code |-> Str("K-1")]],
    [kind |-> "doc", parses |-> TRUE, fm |-> [title |-> Str("AB"), code |-> Str("k")]],
    [kind |-> "doc", parses |-> FALSE, fm |-> EmptyFm],
    [kind |-> "other", parses |-> TRUE, fm |-> EmptyFm] }

\* The name of the file at a position of the listing.
NameAt == <<"0001-a.md", "0002-b.mdx", "my doc.md", "0003-c.md", "0004-d.md">>

RunListings ==
  { [i \in 1..Len(q) |->
       DocFile(IF q[i].kind = "other" THEN "notes.txt" ELSE NameAt[i],
               q[i].parses, q[i].fm)] :
    q \in {r \in SeqsUpTo(RunFiles, MaxFiles) : Len(r) >= 2} }

InitValidate ==
  /\ listing \in SingleListings \cup {l \in RunListings : DistinctNames(l)}
  /\ indexFile = NoFile
  /\ indexing = [columns |-> <<"id", "title", "status">>, format |-> "table"]
  /\ original = NoFile
  /\ syncs = <<>>
  /\ report = NoReport
  /\ running = AllIdle
  /\ cmd = NoCmd

\* A run of validateDocType over the type directory.
ValidateDocType ==
  /\ ~report.ran
  /\ report' = [ran |-> TRUE] @@ validateDocType(Schema, listing)
  /\ UNCHANGED <<listing, indexFile, indexing, original, syncs, cmd, running>>

NextValidate == ValidateDocType

SpecValidate == InitValidate /\ [][NextValidate]_vars

\* ------------------------------------------------------- validation: claims

\* The files validateDocType reads and whose header parses.
Checked(f) == (EndsWithMd(f.name) \/ EndsWithMdx(f.name)) /\ f.parses

\* The report holds an issue of the given field for the file.
HasIssue(file, field) ==
  \E j \in 1..Len(report.errors) :
    /\ report.errors[j].kind = "invalid"
    /\ report.errors[j].file = file
    /\ \E n \in 1..Len(report.errors[j].issues) : report.errors[j].issues[n].field = field

\* The report holds an unrecognized-key issue naming the key for the file.
HasUnknownKey(file, key) ==
  \E j \in 1..Len(report.errors) :
    /\ report.errors[j].kind = "invalid"
    /\ report.errors[j].file = file
    /\ \E n \in 1..Len(report.errors[j].issues) :
         /\ report.errors[j].issues[n].code = "unrecognized_keys"
         /\ key \in report.errors[j].issues[n].keys

\* The fields of a front matter that their own validator rejects.
ViolatingFields(fm) ==
  {FieldOrder[i] : i \in {j \in 1..Len(FieldOrder) :
      FieldIssues(FieldOrder[j], Schema[FieldOrder[j]], fm) # <<>>}}

\* C5: every key of a document that the schema does not declare yields an
\* unknown-field error for that document, whatever its value and whatever
\* the other fields of the document are.
C5_ClosedSchema ==
  report.ran =>
    \A i \in 1..Len(listing) :
      Checked(listing[i]) =>
        \A key \in DOMAIN listing[i].fm \ DOMAIN Schema :
          HasUnknownKey(listing[i].name, key)

\* C5: a validated document that carries an undeclared key next to a field
\* that is invalid on its own; the key is reported.
C5_Witness ==
  /\ report.ran
  /\ \E i \in 1..Len(listing) :
       /\ Checked(listing[i])
       /\ Has(listing[i].fm, "extra")
       /\ listing[i].fm["extra"] = Num("1")
       /\ ViolatingFields(listing[i].fm) # {}
       /\ HasUnknownKey(listing[i].name, "extra")

\* The documents that pass safeParse, by position in the listing.
Passes(i) == Checked(listing[i]) /\ SafeParse(Schema, listing[i].fm).success

\* The document at position i is read by the run and carries a value for
\* the field that passes the validation of that field.
Carries(i, field, value) ==
  /\ Checked(listing[i])
  /\ ~Nullish(listing[i].fm, field)
  /\ FieldIssues(field, Schema[field], listing[i].fm) = <<>>
  /\ listing[i].fm[field] = value

FirstCarrier(field, value) ==
  CHOOSE i \in 1..Len(listing) :
    Carries(i, field, value) /\ \A j \in 1..(i - 1) : ~Carries(j, field, value)

DuplicatesReported ==
  { [file |-> report.errors[j].file, field |-> report.errors[j].field,
     firstSeen |-> report.errors[j].firstSeen] :
    j \in {n \in 1..Len(report.errors) : report.errors[n].kind = "duplicate"} }

DuplicatesExpected ==
  { [file |-> listing[p[1]].name, field |-> p[2],
     firstSeen |-> listing[FirstCarrier(p[2], listing[p[1]].fm[p[2]])].name] :
    p \in { q \in (1..Len(listing)) \X {"id", "code"} :
              /\ Carries(q[1], q[2], listing[q[1]].fm[q[2]])
              /\ FirstCarrier(q[2], listing[q[1]].fm[q[2]]) < q[1] } }

\* C6: for the documents in processing order, every document that carries
\* the value of a unique field that an earlier document carried gets a
\* duplicate error that names the first document that carried the value,
\* however many documents share it; the first carrier gets none.
C6_UniquenessOrdering == report.ran => DuplicatesReported = DuplicatesExpected

\* The document at position i took part in the uniqueness check of the
\* field: its value was recorded as seen or reported as a duplicate.
TookPart(i, field) ==
  \/ \E m \in report.seen : m.field = field /\ m.file = listing[i].name
  \/ \E j \in 1..Len(report.errors) :
       /\ report.errors[j].kind = "duplicate"
       /\ report.errors[j].file = listing[i].name
       /\ report.errors[j].field = field

ParsedOf(file) ==
  report.parsed[CHOOSE j \in 1..Len(report.parsed) : report.parsed[j].file = file]

\* The document omits a field that is not required and has a default generator.
OmitsGenerated(f, field) ==
  /\ Checked(f)
  /\ ~Schema[field].required
  /\ Schema[field].default = "generator"
  /\ ~Has(f.fm, field)

\* C8: a field that a document omits, that is not required and whose
\* default is a generator, validates, and its generator is invoked exactly
\* once for the document in the run.
C8_GeneratorInvokedOnce ==
  report.ran =>
    \A i \in 1..Len(listing) : \A field \in DOMAIN Schema :
      OmitsGenerated(listing[i], field) =>
        /\ ~HasIssue(listing[i].name, field)
        /\ ParsedOf(listing[i].name).generatorCalls = 1

\* C9: the result of a document holds an error for every field of the
\* document that violates the schema, not only for the first.
C9_FailSoft ==
  report.ran =>
    \A i \in 1..Len(listing) :
      Checked(listing[i]) =>
        \A field \in ViolatingFields(listing[i].fm) : HasIssue(listing[i].name, field)

\* C9: a document with three violating fields, each reported.
C9_Witness ==
  /\ report.ran
  /\ \E i \in 1..Len(listing) :
       /\ Checked(listing[i])
       /\ Cardinality(ViolatingFields(listing[i].fm)) >= 3
       /\ \A field \in ViolatingFields(listing[i].fm) : HasIssue(listing[i].name, field)

\* The value is one of the declared enum values.
IsMember(field, v) == \E n \in 1..Len(Schema[field].enum) : Schema[field].enum[n] = v

\* C10: a present value of a field with enum values (each element, for an
\* array) passes validation exactly when it is one of the declared values,
\* also when the declared values are numbers.
C10_EnumMembership ==
  report.ran =>
    \A i \in 1..Len(listing) : \A field \in DOMAIN Schema :
      (/\ Checked(listing[i])
       /\ Len(Schema[field].enum) > 0
       /\ Has(listing[i].fm, field)
       /\ Schema[field].isArray => listing[i].fm[field].t = "array")
      => (~HasIssue(listing[i].name, field)
            <=> IF Schema[field].isArray
                THEN \A n \in 1..Len(listing[i].fm[field].e) :
                       IsMember(field, listing[i].fm[field].e[n])
                ELSE IsMember(field, listing[i].fm[field]))

\* ------------------------------------------------------- the order of the index

\* The ids an author may give a document: none, null, numbers (0 among
\* them) and a string.
AuthorIds == {Undefined, Null, Num("0"), Num("1"), Num("2"), Str("A")}

\* Directories of up to MaxSorted documents, the document at position i
\* named NameAt[i], with any of the ids.
SortListings ==
  { [i \in 1..Len(q) |->
       DocFile(NameAt[i], TRUE,
               IF q[i] = Undefined THEN [title |-> Str("x")]
               ELSE [id |-> q[i], title |-> Str("x")])] :
    q \in SeqsUpTo(AuthorIds, MaxSorted) }

InitSort ==
  /\ listing \in SortListings
  /\ indexFile = NoFile
  /\ indexing \in IndexingChoices
  /\ original = indexFile
  /\ syncs = <<>>
  /\ report = NoReport
  /\ running = AllIdle
  /\ cmd = NoCmd

NextSort ==
  \E p \in Terminal :
    \/ UpdateIndexFile(p)
    \/ ReadDocs(p)
    \/ ReadIndex(p)
    \/ WriteIndex(p)

SpecSort == InitSort /\ [][NextSort]_vars

\* The link targets of the entries of an index file, top to bottom.
RenderedOrder(content) ==
  LET entries == SelectSeq(content, LAMBDA tok : tok.k \in {"row", "item"})
      href(line) == (CHOOSE i \in 1..Len(line.cells) : line.cells[i].href # "")
  IN [i \in 1..Len(entries) |-> entries[i].cells[href(entries[i])].href]

\* The link targets of the documents of a directory in listing order.
ListingOrder(dir) ==
  [i \in 1..Len(DocFilesOf(dir)) |-> EncodeURI(DocFilesOf(dir)[i].name)]

\* The position in the directory of the document an entry links to (file
\* names of a directory are distinct).
PositionOf(dir, target) ==
  (CHOOSE i \in 1..Len(dir) : EncodeURI(dir[i].name) = target)

LacksId(f) == Nullish(f.fm, "id")

\* The entries are in ascending order of id: no entry's id is greater than
\* the id of an entry below it.
Ascending(dir, order) ==
  \A i, j \in 1..Len(order) :
    i < j => ~JsGreater(dir[PositionOf(dir, order[i])].fm.id,
                        dir[PositionOf(dir, order[j])].fm.id)

\* C11: the entries of the rendered index are in listing order when a
\* document lacks an id, and the sort is skipped only then: an index left in
\* a listing order that is not ascending has a document without id.
C11_SortFallback ==
  \A n \in 1..Len(syncs) :
    LET run == syncs[n]
        docs == DocFilesOf(run.listing)
        someLacks == \E i \in 1..Len(docs) : LacksId(docs[i])
    IN ~run.threw =>
         /\ someLacks => RenderedOrder(run.after.content) = ListingOrder(run.listing)
         /\ (/\ ~someLacks
             /\ RenderedOrder(run.after.content) = ListingOrder(run.listing))
            => Ascending(run.listing, ListingOrder(run.listing))

\* C12: when every document has a non-null id, 0 included, the entries of
\* the rendered index are the documents in ascending order of id, whatever
\* the listing order was.
C12_SortedIndex ==
  \A n \in 1..Len(syncs) :
    LET run == syncs[n]
        docs == DocFilesOf(run.listing)
        rendered == RenderedOrder(run.after.content)
    IN (~run.threw /\ \A i \in 1..Len(docs) : ~LacksId(docs[i]))
       => /\ Len(rendered) = Len(docs)
          /\ \A i \in 1..Len(docs) :
               \E k \in 1..Len(rendered) : rendered[k] = EncodeURI(docs[i].name)
          /\ Ascending(run.listing, rendered)

\* ------------------------------------------------- files that do not parse

\* A schema like Schema in which no field is required.
OptionalSchema == [name \in DOMAIN Schema |-> [Schema[name] EXCEPT !.required = FALSE]]

\* The files of a directory with headers that do not parse: a valid
\* document, an invalid one, a file without header, two texts whose header
\* is malformed (a directory may hold the same text under several names),
\* and a file that is no document.
ParseFiles ==
  { [kind |-> "doc", parses |-> TRUE, fm |-> [id |-> Num("1"), title |-> Str("AB")]],
    [kind |-> "doc", parses |-> TRUE, fm |-> [id |-> Num("2"), title |-> Str("A")]],
    [kind |-> "doc", parses |-> TRUE, fm |-> EmptyFm],
    [kind |-> "doc", parses |-> FALSE, fm |-> EmptyFm, text |-> "---\nid: [\n---\n"],
    [kind |-> "doc", parses |-> FALSE, fm |-> EmptyFm, text |-> "---\n: :\n---\n"],
    [kind |-> "other", parses |-> TRUE, fm |-> EmptyFm] }

ParseListings ==
  { [i \in 1..Len(q) |->
       IF "text" \in DOMAIN q[i]
       THEN [name |-> NameAt[i], parses |-> q[i].parses, fm |-> q[i].fm, text |-> q[i].text]
       ELSE DocFile(IF q[i].kind = "other" THEN "notes.txt" ELSE NameAt[i],
                    q[i].parses, q[i].fm)] :
    q \in SeqsUpTo(ParseFiles, MaxFiles) }

InitParse ==
  /\ listing \in {l \in ParseListings : DistinctNames(l)}
  /\ indexFile = NoFile
  /\ indexing = [columns |-> <<"id", "title", "status">>, format |-> "table"]
  /\ original = NoFile
  /\ syncs = <<>>
  /\ report = NoReport
  /\ running = AllIdle
  /\ cmd = NoCmd

\* A run of validateDocType for a type whose schema requires no field.
ValidateOptionalType ==
  /\ ~report.ran
  /\ report' = [ran |-> TRUE] @@ validateDocType(OptionalSchema, listing)
  /\ UNCHANGED <<listing, indexFile, indexing, original, syncs, cmd, running>>

NextParse == ValidateDocType \/ ValidateOptionalType

SpecParse == InitParse /\ [][NextParse]_vars

\* The report holds an error for the file.
HasError(file) == \E j \in 1..Len(report.errors) : report.errors[j].file = file

\* safeParse ran on the file.
WasParsed(file) == \E j \in 1..Len(report.parsed) : report.parsed[j].file = file

\* C14: every document file whose header does not parse has an error
\* under its name, and the run goes on: every document file is counted, and
\* every one whose header parses was validated, with an error under its
\* name when it is invalid.
C14_ParseFailureReported ==
  report.ran =>
    /\ report.fileCount
         = Cardinality({i \in 1..Len(listing) :
                          EndsWithMd(listing[i].name) \/ EndsWithMdx(listing[i].name)})
    /\ \A i \in 1..Len(listing) :
         (EndsWithMd(listing[i].name) \/ EndsWithMdx(listing[i].name)) =>
           IF listing[i].parses
           THEN /\ WasParsed(listing[i].name)
                /\ ~ParsedOf(listing[i].name).success => HasError(listing[i].name)
           ELSE HasError(listing[i].name)

\* ------------------------------------------------------------ folio validate

\* A handleValidate that lists the errors and then ends normally.
HandleValidate_ExitZero(type, configLoads) ==
  /\ cmd = NoCmd
  /\ IF ~configLoads
     THEN /\ cmd' = [name |-> "validate", configLoaded |-> FALSE, exitCode |-> 1]
          /\ UNCHANGED report
     ELSE IF type # "" /\ type \notin Types
          THEN /\ cmd' = [name |-> "validate", configLoaded |-> TRUE, exitCode |-> 0]
               /\ UNCHANGED report
          ELSE LET result == validateDocType(Schema, listing)
                   totalErrorsFound == Len(result.errors)
               IN /\ report' = [ran |-> TRUE] @@ result
                  /\ cmd' = [name |-> "validate", configLoaded |-> TRUE,
                             exitCode |-> 0]
  /\ UNCHANGED <<listing, indexFile, indexing, original, syncs, running>>

\* folio validate [type]: loadConfig, the check of the type argument, the
\* loop over the types to validate, the summary and the exit code.  The
\* process ends with code 0 unless process.exit(1) is called.  type "" is
\* the command without argument.
HandleValidate(type, configLoads) ==
  /\ cmd = NoCmd
  /\ IF ~configLoads
     THEN /\ cmd' = [name |-> "validate", configLoaded |-> FALSE, exitCode |-> 1]
          /\ UNCHANGED report
     ELSE IF type # "" /\ type \notin Types
          THEN /\ cmd' = [name |-> "validate", configLoaded |-> TRUE, exitCode |-> 0]
               /\ UNCHANGED report
          ELSE LET result == validateDocType(Schema, listing)
                   totalErrorsFound == Len(result.errors)
               IN /\ report' = [ran |-> TRUE] @@ result
                  /\ cmd' = [name |-> "validate", configLoaded |-> TRUE,
                             exitCode |-> IF totalErrorsFound = 0 THEN 0 ELSE 1]
  /\ UNCHANGED <<listing, indexFile, indexing, original, syncs, running>>

InitExit ==
  /\ listing \in {l \in RunListings : DistinctNames(l)}
  /\ indexFile = NoFile
  /\ indexing = [columns |-> <<"id", "title", "status">>, format |-> "table"]
  /\ original = NoFile
  /\ syncs = <<>>
  /\ report = NoReport
  /\ running = AllIdle
  /\ cmd = NoCmd

NextExit ==
  \E type \in {"", "adr", "epic"}, configLoads \in BOOLEAN : HandleValidate(type, configLoads)

SpecExit == InitExit /\ [][NextExit]_vars

\* C15: a validate command whose configuration loaded ends with a non-zero
\* exit code exactly when a document it validated has an error; it ends
\* with 0 when every document it validated is valid.
C15_ExitCode ==
  (cmd.name = "validate" /\ cmd.configLoaded)
    => (cmd.exitCode # 0 <=> (report.ran /\ Len(report.errors) > 0))

\* C15: a run over a valid and an invalid document that ended with a
\* non-zero exit code.
C15_Witness ==
  /\ cmd.name = "validate"
  /\ cmd.configLoaded
  /\ report.ran
  /\ \E j \in 1..Len(report.parsed) : report.parsed[j].success
  /\ \E j \in 1..Len(report.parsed) : ~report.parsed[j].success
  /\ cmd.exitCode = 1

\* ------------------------------------------------- the configuration loader

\* z.instanceof(RegExp): the patterns an author wrote as a regular
\* expression literal; any other pattern is a plain string.
IsRegExp(pattern) ==
  pattern \in {"^K-[0-9]$", "^\\d{4}-\\d{2}-\\d{2}$", "^[A-Z]{2,}-\\d{3,}$", "^EPIC-\\d{3,}$"}

\* FrontmatterFieldSchema.safeParse of one authored field: the type is one
\* of the four base types and the pattern, if given, is a RegExp.  No rule
\* relates one key of the field to another.
FieldConfigIssues(raw) ==
  (IF raw.type \notin {"string", "number", "boolean", "date"}
   THEN {"type"} ELSE {})
  \cup (IF raw.pattern # "" /\ ~IsRegExp(raw.pattern) THEN {"pattern"} ELSE {})

\* loadConfig for a configuration whose type declares the fields of Schema
\* with the field code as authored: it throws when a field is invalid.
LoadConfig(raw) ==
  [ok |-> FieldConfigIssues(raw) = {}, schema |-> [Schema EXCEPT !.code = raw]]

\* The definitions of the field code an author may write.
AuthoredFields ==
  { [Field(type) EXCEPT !.pattern = pattern, !.required = required, !.unique = unique] :
      type \in {"string", "number", "boolean", "date", "text"},
      pattern \in {"", "^K-[0-9]$", "K-1"},
      required \in BOOLEAN, unique \in BOOLEAN }

\* The values of code in the documents of the directory.
CodeValues == {Undefined, Str("K-1"), Str("k"), Num("1")}

ConfigListings ==
  { [i \in 1..Len(q) |->
       DocFile(NameAt[i], TRUE,
               IF q[i] = Undefined THEN [id |-> Num(ToString(i)), title |-> Str("AB")]
               ELSE [id |-> Num(ToString(i)), title |-> Str("AB"), code |-> q[i]])] :
    q \in {r \in SeqsUpTo(CodeValues, MaxDocs) : Len(r) >= 1} }

InitConfig ==
  /\ listing \in ConfigListings
  /\ indexFile = NoFile
  /\ indexing = [columns |-> <<"id", "title", "status">>, format |-> "table"]
  /\ original = NoFile
  /\ syncs = <<>>
  /\ report = NoReport
  /\ running = AllIdle
  /\ cmd = NoCmd

\* folio validate under a configuration whose field code is as authored:
\* loadConfig throws on an invalid configuration and the command exits with
\* code 1; otherwise the documents are validated against the schema built
\* from the configuration.
ValidateUnderConfig(raw) ==
  /\ cmd = NoCmd
  /\ LET loaded == LoadConfig(raw)
     IN IF ~loaded.ok
        THEN /\ cmd' = [name |-> "validate", configLoaded |-> FALSE, exitCode |-> 1,
                        field |-> raw]
             /\ UNCHANGED report
        ELSE LET result == validateDocType(loaded.schema, listing)
             IN /\ report' = [ran |-> TRUE] @@ result
                /\ cmd' = [name |-> "validate", configLoaded |-> TRUE,
                           exitCode |-> IF Len(result.errors) = 0 THEN 0 ELSE 1,
                           field |-> raw]
  /\ UNCHANGED <<listing, indexFile, indexing, original, syncs, running>>

NextConfig == \E raw \in AuthoredFields : ValidateUnderConfig(raw)

SpecConfig == InitConfig /\ [][NextConfig]_vars

\* A field definition that is malformed: a type that is no base type, a
\* pattern that is no regular expression, or a pattern on a field whose
\* type is not string.
Malformed(raw) ==
  \/ raw.type \notin {"string", "number", "boolean", "date"}
  \/ raw.pattern # "" /\ ~IsRegExp(raw.pattern)
  \/ raw.pattern # "" /\ raw.type # "string"

\* C16: under a configuration with a malformed field definition, a pattern
\* on a field that is not a string among them, the command fails with a
\* configuration error and validates no document.
C16_MalformedSchemaRejected ==
  (cmd.name = "validate" /\ Malformed(cmd.field))
    => /\ ~cmd.configLoaded
       /\ cmd.exitCode # 0
       /\ ~report.ran

\* ------------------------------------------------------------------ folio new

InitNew ==
  /\ listing = <<>>
  /\ indexFile = NoFile
  /\ indexing = [columns |-> <<"id", "title", "status">>, format |-> "table"]
  /\ original = NoFile
  /\ syncs = <<>>
  /\ report = NoReport
  /\ running = AllIdle
  /\ cmd = NoCmd

\* Runs of folio new one after another in one terminal, and files deleted
\* by hand between the runs.
\* Titles given to folio new with the template file found under
\* docs/_templates: the shipped one, one without front matter, none.
NewRuns ==
  { <<"Use TLA", "adr.md">>, <<"Pick DB!", "body.md">>, <<"Use TLA", "none">> }

NextNew ==
  \/ \E p \in Terminal :
       \/ \E type \in {"adr", "epic"}, run \in NewRuns :
            GenerateName(p, type, run[1], run[2])
       \/ WriteDoc(p)
       \/ ListDocs(p)
       \/ ReadDocs(p)
       \/ ReadIndex(p)
       \/ WriteIndex(p)
       \/ GenerateNav(p)
  \/ Busy = {} /\ \E i \in 1..Len(listing) : DeleteFile(i)

SpecNew == InitNew /\ [][NextNew]_vars

\* C18: the document folio new has just created differs in file name and
\* in id from every document that was in the directory, after any runs of
\* folio new and deletions of files.
C18_UniqueId ==
  cmd.name = "new" =>
    \A i \in 1..Len(cmd.before) :
      /\ cmd.before[i].name # cmd.created.name
      /\ Has(cmd.before[i].fm, "id") => cmd.before[i].fm.id # cmd.created.fm.id

\* C18: a document created after the first of two documents was deleted:
\* it gets the number 3 although the directory held one file.
C18_Witness ==
  /\ cmd.name = "new"
  /\ Len(cmd.before) = 1
  /\ Has(cmd.before[1].fm, "id")
  /\ cmd.before[1].fm.id = Num("2")
  /\ cmd.created.fm.id = Num("3")

\* C19: the document folio new has just created passes validation against
\* the schema of its type.
C19_NewDocumentIsValid ==
  cmd.name = "new" =>
    SafeParse(ConfiguredSchemas[cmd.type], cmd.created.fm).success

\* ------------------------------------------------- two commands at a time

\* Two terminals in which folio new, folio status and a synchronization of
\* the index are started at any time on one project; while a command reads
\* the files it has listed, files of the type directory may be deleted by
\* hand.
InitConcurrent ==
  /\ listing \in {<<>>, <<NewDocument(NewName(1, "use-tla"), "Use TLA", "adr.md")>>}
  /\ indexing = [columns |-> <<"id", "title", "status">>, format |-> "table"]
  /\ indexFile \in {NoFile, WrittenIndex(listing, indexing, NoFile)}
  /\ original = indexFile
  /\ syncs = <<>>
  /\ report = NoReport
  /\ running = AllIdle
  /\ cmd = NoCmd

\* The two terminals are alike, so the first always gives the same title
\* and the second the same or another one.
NextConcurrent ==
  \/ /\ \E p \in Procs : running[p].pc \in {"search", "parse"}
     /\ \E i \in 1..Len(listing) : DeleteFile(i)
  \/ \E p \in Procs :
    \/ /\ Started < MaxSyncs
       /\ \E title \in (IF p = 1 THEN {"Use TLA"} ELSE Titles) :
            GenerateName(p, "adr", title, "adr.md")
    \/ StatusCommand(p, "adr", "1", "accepted")
    \/ SearchDoc(p)
    \/ RewriteDoc(p)
    \/ UpdateIndexFile(p)
    \/ WriteDoc(p)
    \/ ListDocs(p)
    \/ ReadDocs(p)
    \/ ReadIndex(p)
    \/ WriteIndex(p)
    \/ GenerateNav(p)

SpecConcurrent == InitConcurrent /\ [][NextConcurrent]_vars

\* C17: no write of the index file by one operation falls between the read
\* of the index file and the write of the merged content by another.
C17_NoInterleaving == \A i \in 1..Len(syncs) : ~syncs[i].overlapped

\* ------------------------------------------------------------ adr renumber

MaxAdrs == 2

tempSuffix == ".tmp-renumber"

\* /^\\d+/.test(file): the pattern is a backslash followed by one or more
\* letters d, so a name that begins with digits does not match.
StartsWithNumber(name) == name \in BackslashNames

\* getADRDocuments: the files kept by the filter, in directory order (every
\* id is NaN, so the sort leaves the order alone).
AdrFilesOf(dir) ==
  SelectSeq(dir, LAMBDA f : IsDocFile(f.name) /\ StartsWithNumber(f.name))

\* getADRDocuments throws when a kept file cannot be read or parsed.
getADRDocumentsThrows(dir) ==
  \E i \in 1..Len(AdrFilesOf(dir)) : ~AdrFilesOf(dir)[i].parses

\* data.title || filename.replace(/\\.(md|mdx)$/, ""): no name of
\* BackslashNames has a backslash two characters before its extension.
AdrTitle(f) ==
  IF Has(f.fm, "title") /\ Truthy(f.fm.title) THEN f.fm.title.s ELSE f.name

\* title.replace(/^\\d+[-\\s]*/, "").toLowerCase().replace(/[^a-z0-9]+/g, "-")
PlanSlug(title) ==
  CASE title = "Use TLA" -> "use-tla"
    [] title = "Pick DB!" -> "pick-db-"
    [] title = "\\d-a.md" -> "a-md"
    [] title = "\\dd-b.md" -> "b-md"

\* The plan of handleRenumber: one entry per ADR, numbered from startFrom.
renamePlan(dir, startFrom) ==
  [i \in 1..Len(AdrFilesOf(dir)) |->
     [old |-> AdrFilesOf(dir)[i],
      newId |-> startFrom + i - 1,
      newFilename |-> NewName(startFrom + i - 1, PlanSlug(AdrTitle(AdrFilesOf(dir)[i])))]]

\* The calls that change the directory, in the order the code issues them:
\* phase 1 renames every planned file, phase 2 writes every new file and
\* unlinks its temporary file.  stuck holds the plan entries whose unlink
\* the file system refuses.
FsCalls(plan, stuck) ==
  [j \in 1..(2 * Len(plan)) |->
     IF j <= Len(plan)
     THEN [op |-> "rename", plan |-> plan[j], unlinks |-> FALSE]
     ELSE [op |-> "write", plan |-> plan[j - Len(plan)],
           unlinks |-> (j - Len(plan)) \notin stuck]]

IsDirectory(f) == "dir" \in DOMAIN f

RemoveName(dir, name) == SelectSeq(dir, LAMBDA f : f.name # name)

\* fs.writeFile fails on a path that names a directory.
CallFails(dir, call) ==
  /\ call.op = "write"
  /\ \E i \in 1..Len(dir) : dir[i].name = call.plan.newFilename /\ IsDirectory(dir[i])

Renumbered(plan) ==
  [plan.old EXCEPT
     !.name = plan.newFilename,
     !.fm = [k \in DOMAIN plan.old.fm \cup {"id"} |->
               IF k = "id" THEN Num(ToString(plan.newId)) ELSE plan.old.fm[k]]]

\* One call.  A rename gives the file its temporary name; a write puts the
\* new file into the directory and then unlinks the temporary file, where
\* a refused unlink is ignored and leaves the temporary file.
ApplyCall(dir, call) ==
  IF call.op = "rename"
  THEN IF call.plan.old.name # call.plan.newFilename
       THEN LET free == RemoveName(dir, call.plan.old.name \o tempSuffix)
            IN [i \in 1..Len(free) |->
                  IF free[i].name = call.plan.old.name
                  THEN [free[i] EXCEPT !.name = call.plan.old.name \o tempSuffix]
                  ELSE free[i]]
       ELSE dir
  ELSE LET written == Append(RemoveName(dir, call.plan.newFilename), Renumbered(call.plan))
       IN IF call.plan.old.name # call.plan.newFilename /\ call.unlinks
          THEN RemoveName(written, call.plan.old.name \o tempSuffix)
          ELSE written

\* Runs the calls from the j-th on; failAt is the rename or write the file
\* system refuses (0: none).  The first failing call ends the command.
RECURSIVE Execute(_, _, _, _)
Execute(dir, calls, j, failAt) ==
  IF j > Len(calls)
  THEN [dir |-> dir, failed |-> FALSE]
  ELSE IF j = failAt \/ CallFails(dir, calls[j])
       THEN [dir |-> dir, failed |-> TRUE]
       ELSE Execute(ApplyCall(dir, calls[j]), calls, j + 1, failAt)

\* The orders in which readdir may return the directory afterwards: the
\* files the command has neither renamed nor written keep their order, the
\* place of every other file is up to the file system.
Reorders(dir, before) ==
  LET kept(f) == \E i \in 1..Len(before) : before[i] = f
  IN {s \in {[i \in 1..Len(dir) |-> dir[pi[i]]] : pi \in Permutations(1..Len(dir))} :
        SelectSeq(s, kept) = SelectSeq(dir, kept)}

\* An option of the options object; a key that is not there reads as
\* undefined, which is falsy.
Option(options, key) == key \in DOMAIN options /\ options[key]

\* handleRenumber(options): the keys read are force, "dry-run" and
\* "start-from".
HandleRenumber(p, options, failAt, stuck) ==
  LET force == Option(options, "force")
      dryRun == Option(options, "dry-run")
      startFrom == options["start-from"]
      plan == renamePlan(listing, startFrom)
      run == Execute(listing, FsCalls(plan, stuck), 1, failAt)
      base == [name |-> "renumber", force |-> force, dryRun |-> dryRun,
               options |-> options, before |-> listing, plan |-> plan,
               failAt |-> failAt, stuck |-> stuck,
               changed |-> FALSE, exitCode |-> 0]
  IN /\ running[p].pc = "idle"
     /\ IF ~force
        THEN /\ cmd' = [base EXCEPT !.plan = <<>>]
             /\ UNCHANGED <<listing, indexFile, indexing, original, syncs, report, running>>
        ELSE IF getADRDocumentsThrows(listing)
        THEN /\ cmd' = [base EXCEPT !.plan = <<>>, !.exitCode = 1]
             /\ UNCHANGED <<listing, indexFile, indexing, original, syncs, report, running>>
        ELSE IF Len(plan) = 0 \/ dryRun
        THEN /\ cmd' = base
             /\ UNCHANGED <<listing, indexFile, indexing, original, syncs, report, running>>
        ELSE IF run.failed
        THEN /\ listing' \in Reorders(run.dir, listing)
             /\ cmd' = [base EXCEPT !.changed = TRUE, !.exitCode = 1]
             /\ UNCHANGED <<indexFile, indexing, original, syncs, report, running>>
        ELSE /\ listing' \in Reorders(run.dir, listing)
             /\ running' = [running EXCEPT ![p] =
                  [Idle EXCEPT !.pc = "list", !.name = "renumber",
                               !.report = [base EXCEPT !.changed = TRUE]]]
             /\ cmd' = [base EXCEPT !.changed = TRUE]
             /\ UNCHANGED <<indexFile, indexing, original, syncs, report>>

\* folio adr renumber [--force] [--dry-run] [--start-from n]: the action
\* of createADRCommand.  commander hands the flags over under the keys
\* force, dryRun and startFrom; the action adds the key "start-from" and
\* passes the object on, so no key "dry-run" reaches handleRenumber.
RenumberCommand(p, force, dryRun, startFrom, failAt, stuck) ==
  HandleRenumber(p,
                 [force |-> force, dryRun |-> dryRun, startFrom |-> startFrom]
                   @@ ("start-from" :> startFrom),
                 failAt, stuck)

\* ADR directories: files whose names begin with a backslash and d, an
\* ordinary numbered file, a file that does not parse, and a directory that
\* has the name the first planned file would get.
RenumberFiles ==
  {DocFile("\\d-a.md", TRUE, EmptyFm),
   DocFile("\\d-a.md", TRUE, [title |-> Str("Use TLA"), id |-> Num("4")]),
   DocFile("\\dd-b.md", TRUE, EmptyFm),
   DocFile("\\dd-b.md", TRUE, [title |-> Str("Pick DB!")]),
   DocFile("\\dd-b.md", FALSE, EmptyFm),
   NewDocument(NewName(1, "use-tla"), "Use TLA", "adr.md")}

Obstacle ==
  [name |-> NewName(1, "a-md"), parses |-> FALSE, fm |-> EmptyFm, dir |-> TRUE]

RenumberListings ==
  {s \o o : s \in {t \in SeqsUpTo(RenumberFiles, MaxAdrs) :
                      \A i, j \in 1..Len(t) : i # j => t[i].name # t[j].name},
            o \in {<<>>, <<Obstacle>>}}

InitRenumber ==
  /\ listing \in RenumberListings
  /\ indexing = [columns |-> <<"id", "title", "status">>, format |-> "table"]
  /\ indexFile = NoFile
  /\ original = indexFile
  /\ syncs = <<>>
  /\ report = NoReport
  /\ running = AllIdle
  /\ cmd = NoCmd

NextRenumber ==
  \E p \in Terminal :
    \/ \E force, dryRun \in BOOLEAN, startFrom \in {1, 2},
          failAt \in 0..(2 * Len(AdrFilesOf(listing))),
          stuck \in SUBSET (1..Len(AdrFilesOf(listing))) :
         RenumberCommand(p, force, dryRun, startFrom, failAt, stuck)
    \/ ListDocs(p)
    \/ ReadDocs(p)
    \/ ReadIndex(p)
    \/ WriteIndex(p)

SpecRenumber == InitRenumber /\ [][NextRenumber]_vars

IsTempName(name) == \E n \in BackslashNames : name = n \o tempSuffix

HasName(dir, name) == \E i \in 1..Len(dir) : dir[i].name = name

AllRenumbered(dir, plan) ==
  \A i \in 1..Len(plan) :
    /\ ~HasName(dir, plan[i].old.name)
    /\ \E k \in 1..Len(dir) :
         /\ dir[k].name = plan[i].newFilename
         /\ ~IsDirectory(dir[k])
         /\ Has(dir[k].fm, "id")
         /\ dir[k].fm.id = Num(ToString(plan[i].newId))

\* C20: after adr renumber --force, whether or not a rename or a write
\* failed part-way, either every ADR file has its new name and id or the
\* directory is as it was before the command, and no file is left under a
\* .tmp-renumber name.
C20_Atomic ==
  (cmd.name = "renumber" /\ cmd.force) =>
    /\ listing = cmd.before \/ AllRenumbered(listing, cmd.plan)
    /\ \A i \in 1..Len(listing) : ~IsTempName(listing[i].name)

\* ---------------------------------------------------- the files utility

\* Entries of a type directory: numbered files with and without leading
\* zeros (one of them not a Markdown file), and files whose names carry no
\* number followed by a hyphen.
FsEntries ==
  {DocFile("0001-a.md", TRUE, [id |-> Num("1")]),
   DocFile("0009-x.md", TRUE, [id |-> Num("2")]),
   DocFile("12-z.txt", FALSE, EmptyFm),
   DocFile("9999-y.md", TRUE, EmptyFm),
   DocFile("12abc.md", TRUE, EmptyFm),
   DocFile("notes.md", TRUE, [title |-> Str("x")])}

FsListings == {l \in SeqsUpTo(FsEntries, MaxFiles) : DistinctNames(l)}

\* The contents offered to writeDocFile.
FsContents == {EmptyFm, [id |-> Num("1")], [id |-> Num("3")]}

\* dirExists: whether the type directory is there.  A directory that is
\* not there has no entries.
InitFiles ==
  /\ listing \in FsListings
  /\ indexing \in IndexingChoices
  /\ indexFile = NoFile
  /\ original = NoFile
  /\ syncs = <<>>
  /\ report = NoReport
  /\ running = AllIdle
  /\ \E dirExists \in BOOLEAN :
       /\ (listing # <<>>) => dirExists
       /\ cmd = [name |-> "fs", op |-> "none", dirExists |-> dirExists]

\* generateSequentialFilename: ensureDirectoryExists creates the directory,
\* readdir lists it, the name is computed; no file is written.
GenerateSequentialFilename(title) ==
  /\ cmd.name = "fs"
  /\ cmd' = [name |-> "fs", op |-> "generate", dirExists |-> TRUE,
             existed |-> cmd.dirExists, title |-> title, before |-> listing,
             result |-> generateSequentialFilename(listing, title)]
  /\ UNCHANGED <<listing, indexFile, indexing, original, syncs, report, running>>

\* writeDocFile with the flag "w": an existing file is replaced.
WriteDocFile_Overwrite(filename, content) ==
  /\ cmd.name = "fs"
  /\ Len(listing) < MaxFiles + 1
  /\ \E pos \in 0..Len(SelectSeq(listing, LAMBDA f : f.name # filename)) :
       listing' = InsertAt(SelectSeq(listing, LAMBDA f : f.name # filename), pos,
                           DocFile(filename, TRUE, content))
  /\ cmd' = [name |-> "fs", op |-> "write", dirExists |-> TRUE,
             filename |-> filename, content |-> content, before |-> listing,
             threw |-> FALSE, message |-> ""]
  /\ UNCHANGED <<indexFile, indexing, original, syncs, report, running>>

\* writeDocFile: ensureDirectoryExists, then fs.writeFile with the flag
\* "wx", which fails with EEXIST when the path exists.  The place of the
\* new file in the order readdir returns is up to the file system.
WriteDocFile(filename, content) ==
  /\ cmd.name = "fs"
  /\ Len(listing) < MaxFiles + 1
  /\ IF \E i \in 1..Len(listing) : listing[i].name = filename
     THEN /\ cmd' = [name |-> "fs", op |-> "write", dirExists |-> TRUE,
                     filename |-> filename, content |-> content, before |-> listing,
                     threw |-> TRUE, message |-> "already exists"]
          /\ UNCHANGED listing
     ELSE /\ \E pos \in 0..Len(listing) :
               listing' = InsertAt(listing, pos, DocFile(filename, TRUE, content))
          /\ cmd' = [name |-> "fs", op |-> "write", dirExists |-> TRUE,
                     filename |-> filename, content |-> content, before |-> listing,
                     threw |-> FALSE, message |-> ""]
  /\ UNCHANGED <<indexFile, indexing, original, syncs, report, running>>

NextFiles ==
  \/ \E title \in Titles : GenerateSequentialFilename(title)
  \/ \E filename \in {"0001-a.md", "notes.md", NewName(2, "use-tla")}, content \in FsContents :
       WriteDocFile(filename, content)

SpecFiles == InitFiles /\ [][NextFiles]_vars

\* C21: when the target name exists in the type directory, writeDocFile
\* fails with the already-exists error and the directory, the existing file
\* included, is as it was.
C21_NeverOverwrites ==
  (cmd.name = "fs" /\ cmd.op = "write" /\ HasName(cmd.before, cmd.filename)) =>
    /\ cmd.threw
    /\ cmd.message = "already exists"
    /\ listing = cmd.before

\* A write onto an existing file that holds other content was refused.
C21_Witness ==
  /\ cmd.name = "fs"
  /\ cmd.op = "write"
  /\ cmd.threw
  /\ \E i \in 1..Len(listing) :
       listing[i].name = cmd.filename /\ listing[i].fm # cmd.content

\* The four-digit form of the numbers the directories of FsListings lead to.
FourDigits(n) ==
  CASE n = 1 -> "0001"
    [] n = 2 -> "0002"
    [] n = 3 -> "0003"
    [] n = 10 -> "0010"
    [] n = 13 -> "0013"
    [] n = 10000 -> "10000"

NumericPrefixes(dir) == {LeadingNumber(dir[i].name) : i \in 1..Len(dir)} \ {0}

\* C22: generateSequentialFilename returns <n>-<slug>.md, n one more than
\* the largest number in front of a hyphen among the names of the directory
\* (1 when there is none or the directory does not exist), written with at
\* least four digits; names without such a number do not count.
C22_SequentialFilename ==
  (cmd.name = "fs" /\ cmd.op = "generate") =>
    \E n \in {1, 2, 3, 10, 13, 10000} :
      /\ \A k \in NumericPrefixes(cmd.before) : k < n
      /\ n = 1 \/ (n - 1) \in NumericPrefixes(cmd.before)
      /\ cmd.result = FourDigits(n) \o "-" \o Slugify(cmd.title) \o ".md"

\* The number crossed four digits in a directory that also holds a name
\* without a number.
C22_Witness ==
  /\ cmd.name = "fs"
  /\ cmd.op = "generate"
  /\ cmd.result = "10000-use-tla.md"
  /\ \E i \in 1..Len(cmd.before) : LeadingNumber(cmd.before[i].name) = 0

\* ------------------------------------------------- folio init, templates

\* The template names of the configured document types (folio.config.ts).
TemplateNames == {"generic-doc.md", "epic.md", "ticket.md", "sprint.md", "adr.md"}

\* The Markdown templates shipped in the package, which copyCoreTemplates
\* finds by readdir: the files of templates/markdown.  The shipped
\* configuration names three more that the package does not hold.
PackagedTemplates == {"adr.md", "sprint.md"}

\* What createStructure leaves in the project: the docs directory with its
\* README.md and subdirectories, the .github directory with the workflow
\* files, and no template directory.
WorkflowNames == {"validate-docs.yml", "update-indexes.yml", "docs-health-check.yml"}

ScaffoldPaths ==
  {"docs", "docs/README.md", "docs/schemas", "docs/prompts", ".github",
   ".github/workflows"} \cup {".github/workflows/" \o w : w \in WorkflowNames}

\* What readdir of templates/github-workflows in the package yields: the
\* workflow files, or an error when the directory is not there, which
\* copyCoreTemplates catches with a warning.
PackagedWorkflows == {[readable |-> TRUE, files |-> WorkflowNames],
                      [readable |-> FALSE, files |-> {}]}

\* Paths a project may hold before a command: the project is the set of its
\* paths, relative to the directory of folio.config.ts.
UserPaths == {"docs", "folio.config.ts", "templates/adr.md", "docs/_templates/adr.md"}

ProjectStates ==
  {ps \in SUBSET UserPaths : "docs/_templates/adr.md" \in ps => "docs" \in ps}

InitProject ==
  /\ listing = <<>>
  /\ indexing \in IndexingChoices
  /\ indexFile = NoFile
  /\ original = NoFile
  /\ syncs = <<>>
  /\ report = NoReport
  /\ running = AllIdle
  /\ \E ps \in ProjectStates :
       cmd = [name |-> "project", op |-> "none", paths |-> ps,
              fresh |-> ps = {}, inited |-> FALSE, workflows |-> "none"]

\* copyCoreTemplates: the configuration file, the templates directory with
\* every packaged template, and .github/workflows (made with its parent
\* .github by the recursive mkdir) with the packaged workflows when their
\* directory can be read.
copyCoreTemplates(paths, workflows) ==
  paths \cup {"folio.config.ts", "templates"}
        \cup {"templates/" \o t : t \in PackagedTemplates}
        \cup {".github", ".github/workflows"}
        \cup {".github/workflows/" \o w : w \in workflows.files}

\* handleGenerateNav as handleInit calls it: the README.md of the docs
\* directory is written, or the call fails and handleInit logs a hint.
GenerateNavPaths(paths) == {paths, paths \cup {"docs/README.md"}}

\* folio init [--force]: refused when docs exists and --force is not
\* given; otherwise createStructure, copyCoreTemplates and, in a try of its
\* own, handleGenerateNav.
HandleInit(force, workflows) ==
  /\ cmd.name = "project"
  /\ IF "docs" \in cmd.paths /\ ~force
     THEN cmd' = [cmd EXCEPT !.op = "init-refused"]
     ELSE \E paths \in GenerateNavPaths(copyCoreTemplates(cmd.paths \cup ScaffoldPaths,
                                                          workflows)) :
            cmd' = [cmd EXCEPT !.op = "init", !.inited = TRUE, !.paths = paths,
                               !.workflows = IF workflows.readable THEN "copied"
                                             ELSE "skipped"]
  /\ UNCHANGED <<listing, indexFile, indexing, original, syncs, report, running>>

\* readTemplateFile(templateName, configDir), as folio new calls it:
\* path.join(configDir, "docs", "_templates", templateName).
ReadTemplateFile(templateName) ==
  /\ cmd.name = "project"
  /\ cmd' = [name |-> "project", op |-> "read", paths |-> cmd.paths,
             fresh |-> cmd.fresh, inited |-> cmd.inited, workflows |-> cmd.workflows,
             template |-> templateName,
             path |-> "docs/_templates/" \o templateName,
             found |-> ("docs/_templates/" \o templateName) \in cmd.paths]
  /\ UNCHANGED <<listing, indexFile, indexing, original, syncs, report, running>>

NextProject ==
  \/ \E force \in BOOLEAN, workflows \in PackagedWorkflows : HandleInit(force, workflows)
  \/ \E templateName \in TemplateNames : ReadTemplateFile(templateName)

SpecProject == InitProject /\ [][NextProject]_vars

\* C23: after folio init in a fresh project, readTemplateFile finds the
\* template of every configured type, in the templates directory of the
\* project, where init put it.
C23_InitTemplatesFound ==
  (cmd.name = "project" /\ cmd.op = "read" /\ cmd.fresh /\ cmd.inited) =>
    /\ cmd.found
    /\ cmd.path = "templates/" \o cmd.template

\* ------------------------------------------- the type directory as a whole

\* Documents that conform to Schema, a README.md with and without front
\* matter, and a file that is not Markdown.
DirFiles ==
  {DocFile("0001-a.md", TRUE, [id |-> Num("1"), title |-> Str("AB")]),
   DocFile("0003-c.md", TRUE, [id |-> Num("2"), title |-> Str("AB"), status |-> Str("accepted")]),
   DocFile("README.md", TRUE, EmptyFm),
   DocFile("README.md", TRUE, [id |-> Num("3"), title |-> Str("AB")]),
   DocFile("notes.txt", TRUE, EmptyFm)}

DirListings == {l \in SeqsUpTo(DirFiles, MaxDocs) : DistinctNames(l)}

InitDirectory ==
  /\ listing \in DirListings
  /\ indexing \in {c \in IndexingChoices : Len(c.columns) = 3}
  /\ indexFile \in {NoFile, FileOf(<<Text("before")>>)}
  /\ original = indexFile
  /\ syncs = <<>>
  /\ report = NoReport
  /\ running = AllIdle
  /\ cmd = NoCmd

\* folio validate on the directory, once in a run: validateDocType up to
\* fs.readdir.  A directory without a Markdown file is done at once.
ValidateDirectory(p) ==
  /\ running[p].pc = "idle"
  /\ ~report.ran
  /\ \E dir \in Readdir :
       LET names == NamesOf(dir)
           first == NextMd(names, 1)
       IN IF first = 0
          THEN /\ report' = [ran |-> TRUE] @@ NoValidation
               /\ cmd' = [name |-> "validate", configLoaded |-> TRUE, exitCode |-> 0,
                          files |-> <<>>]
               /\ UNCHANGED running
          ELSE /\ running' = [running EXCEPT ![p] =
                    [Idle EXCEPT !.pc = "validate", !.name = "validate",
                                 !.names = names, !.at = first]]
               /\ UNCHANGED <<report, cmd>>
  /\ UNCHANGED <<listing, indexFile, indexing, original, syncs>>

\* One turn of the loop of validateDocType: the next Markdown file of the
\* names listed is read as it is now and validated; a file that is gone is
\* counted and reported as one that could not be read.  After the last file
\* handleValidate sums up and sets the exit code.
ValidateNext(p) ==
  LET job == running[p]
      name == job.names[job.at]
      there == Present(OnDisk, name)
      f == IF there THEN FileNamed(OnDisk, name) ELSE DocFile(name, FALSE, EmptyFm)
      acc == IF there THEN ValidateFile(Schema, f, job.acc)
             ELSE [job.acc EXCEPT !.fileCount = @ + 1,
                                  !.errors = Append(@, UnreadableError(name))]
      read == Append(job.docs, f)
      next == NextMd(job.names, job.at + 1)
  IN /\ job.pc = "validate"
     /\ IF next = 0
        THEN /\ report' = [ran |-> TRUE] @@ acc
             /\ cmd' = [name |-> "validate", configLoaded |-> TRUE,
                        exitCode |-> IF Len(acc.errors) = 0 THEN 0 ELSE 1,
                        files |-> read]
             /\ running' = [running EXCEPT ![p] = Idle]
        ELSE /\ running' = [running EXCEPT ![p] =
                  [job EXCEPT !.at = next, !.acc = acc, !.docs = read]]
             /\ UNCHANGED <<report, cmd>>
     /\ UNCHANGED <<listing, indexFile, indexing, original, syncs>>

NextDirectory ==
  \/ \E p \in Terminal :
       \/ SyncDirectory(p)
       \/ ReadDocs(p)
       \/ ReadIndex(p)
       \/ WriteIndex(p)
       \/ ValidateDirectory(p)
       \/ ValidateNext(p)
  \/ \E i \in 1..Len(listing) : DeleteFile(i)

SpecDirectory == InitDirectory /\ [][NextDirectory]_vars

\* C24: no synchronization lists index.md or a README.md of the type
\* directory as an entry of the index it writes.
C24_IndexAndReadmeExcluded ==
  \A i \in 1..Len(syncs) :
    LET order == RenderedOrder(syncs[i].after.content)
    IN \A k \in 1..Len(order) : order[k] \notin {"index.md", "README.md"}

Placeholder == Tok("placeholder", "No documents found for this type.")

IsEntryLine(tok) == tok.k \in {"header", "separator", "row", "item"}

\* C25: a synchronization that finds no document writes the placeholder
\* text between the markers, and no table header and no list item.
C25_EmptyPlaceholder ==
  \A i \in 1..Len(syncs) :
    LET run == syncs[i]
        after == run.after.content
        region == <<StartTok, NL, NL, Placeholder, NL, NL, EndTok>>
    IN (~run.threw /\ DocFilesOf(run.listing) = <<>>) =>
         /\ \E p \in 0..(Len(after) - Len(region)) :
              SubSeq(after, p + 1, p + Len(region)) = region
         /\ \A k \in 1..Len(after) : ~IsEntryLine(after[k])

\* A directory whose only Markdown file is index.md was synchronized after
\* its documents were deleted.
C25_Witness ==
  /\ Len(syncs) = 2
  /\ DocFilesOf(syncs[1].listing) # <<>>
  /\ DocFilesOf(syncs[2].listing) = <<>>
  /\ syncs[2].before.exists
  /\ ~syncs[2].threw

\* C28: once index.md has been written into a type directory, a run of
\* folio validate in which every document read conforms to a schema with
\* required fields reports no error and exits with zero.
C28_IndexNotValidated ==
  ( /\ cmd.name = "validate"
    /\ \E k \in 1..Len(cmd.files) : cmd.files[k].name = "index.md"
    /\ \E i \in 1..Len(syncs) : ~syncs[i].threw
    /\ Len(validateDocType(Schema, SelectSeq(cmd.files,
                              LAMBDA f : f.name # "index.md")).errors) = 0 ) =>
    /\ Len(report.errors) = 0
    /\ cmd.exitCode = 0

\* ------------------------------------------------------------ folio status

StatusFiles ==
  {DocFile("0001-a.md", TRUE, [id |-> Num("1"), title |-> Str("AB"), status |-> Str("proposed")]),
   DocFile("0002-b.mdx", TRUE, [id |-> Num("2"), title |-> Str("AB"), date |-> Str("2023-05-05")]),
   DocFile("0003-c.md", TRUE, [id |-> Num("1"), title |-> Str("x")]),
   DocFile("0004-d.md", TRUE, [id |-> Num("0"), status |-> Str("proposed")]),
   DocFile("my doc.md", FALSE, EmptyFm),
   DocFile("notes.txt", TRUE, EmptyFm)}

StatusListings == {l \in SeqsUpTo(StatusFiles, MaxDocs) : DistinctNames(l)}

InitStatus ==
  /\ listing \in StatusListings
  /\ indexing = [columns |-> <<"id", "title", "status">>, format |-> "table"]
  /\ indexFile \in {NoFile, FileOf(<<Text("before")>>)}
  /\ original = indexFile
  /\ syncs = <<>>
  /\ report = NoReport
  /\ running = AllIdle
  /\ cmd = NoCmd

\* Command lines: found and missing ids (0 is an id no search can match),
\* a status outside the enum, and types without status field or unknown.
StatusArgs ==
  { <<"adr", "1", "accepted">>, <<"adr", "2", "accepted">>, <<"adr", "9", "accepted">>,
    <<"adr", "0", "accepted">>, <<"adr", "1", "bogus">>, <<"ticket", "1", "Done">>,
    <<"plain", "1", "bogus">>, <<"note", "1", "accepted">>, <<"epic", "1", "accepted">> }

NextStatus ==
  \E p \in Terminal :
    \/ \E args \in StatusArgs : StatusCommand(p, args[1], args[2], args[3])
    \/ SearchDoc(p)
    \/ RewriteDoc(p)
    \/ ListDocs(p)
    \/ ReadDocs(p)
    \/ ReadIndex(p)
    \/ WriteIndex(p)

SpecStatus == InitStatus /\ [][NextStatus]_vars

Rejections == {"unknown-type", "no-status-field", "invalid-status", "missing"}

\* C26: a folio status command rejected for an unknown type, a type without
\* a status field, a status outside the enum or an id no document carries
\* leaves every document file and the index file as they were: it ends at
\* the rejection, so it has no write of a document ahead of it and no
\* synchronization of the index is run on its behalf.
C26_RejectedWritesNothing ==
  /\ (cmd.name = "status" /\ cmd.outcome \in Rejections) =>
       /\ cmd.after = cmd.before
       /\ cmd.indexAfter = cmd.indexBefore
  /\ \A p \in Procs :
       (running[p].name = "status" /\ running[p].pc \notin {"idle", "search"})
         => running[p].outcome = "found"
  /\ \A i \in 1..Len(syncs) :
       syncs[i].by.name = "status" => syncs[i].by.outcome = "found"

\* Each kind of rejection happens on a directory that holds documents and
\* an index that a synchronization would rewrite.
C26_Witness ==
  /\ cmd.name = "status"
  /\ cmd.outcome = "missing"
  /\ DocFilesOf(listing) # <<>>
  /\ ~ParseThrows(listing)
  /\ indexFile # WrittenIndex(listing, indexing, indexFile)

\* C29: a folio status command that succeeds changes the status field of
\* the one document whose id matches; the other fields of that document
\* and every other file of the type are as they were.
C29_OnlyStatusChanges ==
  (cmd.name = "status" /\ cmd.outcome = "found") =>
    /\ Len(cmd.after) = Len(cmd.before)
    /\ \A i \in 1..Len(cmd.after) : i # cmd.at => cmd.after[i] = cmd.before[i]
    /\ cmd.after[cmd.at].name = cmd.before[cmd.at].name
    /\ JsString(cmd.before[cmd.at].fm.id) = cmd.id
    /\ cmd.after[cmd.at].fm.status = Str(cmd.newStatus)
    /\ DOMAIN cmd.after[cmd.at].fm \ {"status"} = DOMAIN cmd.before[cmd.at].fm \ {"status"}
    /\ \A key \in DOMAIN cmd.before[cmd.at].fm \ {"status"} :
         cmd.after[cmd.at].fm[key] = cmd.before[cmd.at].fm[key]

\* ------------------------------------------------------- the knowledge API

\* entry.name.endsWith('.md') in findMarkdownFiles, for the paths of files
\* below the docs root, relative to it.
IsMarkdownPath(p) == p # "adrs/0002-b.mdx"

\* generateId: slashes become hyphens, the extension .md and a leading
\* "docs-" are removed, the rest is lower-cased.
generateId(relativePath) ==
  CASE relativePath = "adrs/0001-a.md" -> "adrs-0001-a"
    [] relativePath = "adrs-0001-a.md" -> "adrs-0001-a"
    [] relativePath = "tickets/0001-a.md" -> "tickets-0001-a"
    [] relativePath = "notes.md" -> "notes"

\* The files found below the docs root: with no id in the front matter,
\* with a numeric id, with the id of another file's path, and one whose
\* header does not parse.
ApiFiles ==
  {DocFile("adrs/0001-a.md", TRUE, [title |-> Str("A")]),
   DocFile("adrs/0001-a.md", TRUE, [id |-> Num("1"), title |-> Str("A")]),
   DocFile("tickets/0001-a.md", TRUE, [id |-> Num("1")]),
   DocFile("tickets/0001-a.md", TRUE, EmptyFm),
   DocFile("adrs-0001-a.md", TRUE, EmptyFm),
   DocFile("notes.md", TRUE, [id |-> Str("tickets-0001-a")]),
   [name |-> "notes.md", parses |-> FALSE, fm |-> EmptyFm, text |-> "---\nid: [\n---\n"],
   DocFile("adrs/0002-b.mdx", TRUE, [id |-> Num("2")])}

ApiListings == {l \in SeqsUpTo(ApiFiles, MaxDocs) : DistinctNames(l)}

\* The server object and what its process keeps: the documents map in
\* insertion order, the texts gray-matter has cached, the calls of
\* loadDocuments so far.
ApiState(op, documents, cache, loads) ==
  [name |-> "api", op |-> op, documents |-> documents, cache |-> cache, loads |-> loads]

InitApi ==
  /\ listing \in ApiListings
  /\ indexing = [columns |-> <<"id", "title", "status">>, format |-> "table"]
  /\ indexFile = NoFile
  /\ original = NoFile
  /\ syncs = <<>>
  /\ report = NoReport
  /\ running = AllIdle
  /\ cmd = ApiState("none", <<>>, {}, 0)

\* The document object of loadDocuments: id and filePath first, then the
\* front matter spread over them.
ApiDocument(f) ==
  [key |-> generateId(f.name),
   id |-> IF Has(f.fm, "id") THEN f.fm.id ELSE Str(generateId(f.name)),
   filePath |-> f.name]

\* Map.prototype.set: an existing key keeps its place and takes the new
\* value, a new key goes to the end.
MapSet(documents, doc) ==
  IF \E i \in 1..Len(documents) : documents[i].key = doc.key
  THEN [i \in 1..Len(documents) |->
          IF documents[i].key = doc.key THEN doc ELSE documents[i]]
  ELSE Append(documents, doc)

\* The directories below the docs root, and the directory of a path
\* relative to the root ("" for the root itself).
ApiDirs == {"adrs", "tickets"}

DirOf(relativePath) ==
  CASE relativePath \in {"adrs/0001-a.md", "adrs/0002-b.mdx"} -> "adrs"
    [] relativePath = "tickets/0001-a.md" -> "tickets"
    [] OTHER -> ""

\* The entries of the root in the order of the file system: a file of the
\* root by its name, a directory once, where its first file stands.
RECURSIVE RootEntries(_, _)
RootEntries(files, seen) ==
  IF Len(files) = 0 THEN <<>>
  ELSE LET dir == DirOf(Head(files).name)
           entry == IF dir = "" THEN Head(files).name ELSE dir
       IN IF entry \in seen THEN RootEntries(Tail(files), seen)
          ELSE <<entry>> \o RootEntries(Tail(files), seen \cup {entry})

\* fs.readdir(dir, {withFileTypes: true}) in scanDir, as the directory is
\* now.  A directory that is gone cannot be read and is skipped, which
\* leaves what an empty one leaves.
ScanEntries(dir) ==
  IF dir = "" THEN RootEntries(listing, {})
  ELSE NamesOf(SelectSeq(listing, LAMBDA f : DirOf(f.name) = dir))

\* The loop of scanDir over the entries up to its next await: a file that
\* ends in .md is pushed, a directory is where the next readdir is called.
RECURSIVE ScanLoop(_, _)
ScanLoop(entries, files) ==
  IF Len(entries) = 0 \/ Head(entries) \in ApiDirs
  THEN [files |-> files, entries |-> entries]
  ELSE ScanLoop(Tail(entries),
                IF IsMarkdownPath(Head(entries)) THEN Append(files, Head(entries))
                ELSE files)

\* loadDocuments(docsRoot) up to its first await: the map is cleared and
\* findMarkdownFiles has called readdir on the root.
LoadDocuments(p) ==
  /\ cmd.name = "api"
  /\ running[p].pc = "idle"
  /\ cmd.loads < MaxSyncs
  /\ cmd' = ApiState("load", <<>>, cmd.cache, cmd.loads + 1)
  /\ running' = [running EXCEPT ![p] =
                   [Idle EXCEPT !.pc = "scan", !.name = "load", !.args = <<"">>]]
  /\ UNCHANGED <<listing, indexFile, indexing, original, syncs, report>>

\* findMarkdownFiles, one readdir of scanDir: the entries of the directory
\* come before the entries still to visit, depth first.  After the last
\* directory the files found are read one by one; without a file the load
\* is over.
ScanDir(p) ==
  LET job == running[p]
      scan == ScanLoop(ScanEntries(Head(job.args)) \o Tail(job.args), job.names)
  IN /\ job.pc = "scan"
     /\ running' = [running EXCEPT ![p] =
          IF Len(scan.entries) > 0
          THEN [job EXCEPT !.args = scan.entries, !.names = scan.files]
          ELSE IF Len(scan.files) > 0
          THEN [job EXCEPT !.pc = "load", !.args = <<>>, !.names = scan.files, !.at = 1]
          ELSE Idle]
     /\ UNCHANGED <<listing, indexFile, indexing, original, syncs, report, cmd>>

\* loadDocuments, one turn of the loop over markdownFiles: the file is read
\* as it is now and parsed, and its document is set under the id made from
\* its path.  A file that is gone and a header that throws are warned about
\* and skipped; a text gray-matter has cached yields the cached object.
LoadFile(p) ==
  LET job == running[p]
      name == job.names[job.at]
      there == Present(listing, name)
      f == FileNamed(listing, name)
      skipped == ~there \/ MatterThrows(f, cmd.cache)
      documents == IF skipped THEN cmd.documents
                   ELSE MapSet(cmd.documents, ApiDocument([f EXCEPT !.fm = MatterData(f)]))
      cache == IF there THEN cmd.cache \cup {ContentOf(f)} ELSE cmd.cache
  IN /\ job.pc = "load"
     /\ cmd' = ApiState("load", documents, cache, cmd.loads)
     /\ running' = [running EXCEPT ![p] =
          IF job.at < Len(job.names) THEN [job EXCEPT !.at = @ + 1] ELSE Idle]
     /\ UNCHANGED <<listing, indexFile, indexing, original, syncs, report>>

\* GET /api/documents/:id, answered from the map as it is when the request
\* arrives.
GetDocument(id) ==
  /\ cmd.name = "api"
  /\ LET hits == SelectSeq(cmd.documents, LAMBDA d : d.key = id)
     IN cmd' = ApiState("get", cmd.documents, cmd.cache, cmd.loads) @@
                  [requested |-> id,
                   code |-> IF Len(hits) = 0 THEN 404 ELSE 200,
                   filePath |-> IF Len(hits) = 0 THEN "" ELSE hits[1].filePath]
  /\ UNCHANGED <<listing, indexFile, indexing, original, syncs, report, running>>

\* A file below the docs root is removed by hand while the server runs.
RemoveFile(i) ==
  /\ listing' = SubSeq(listing, 1, i - 1) \o SubSeq(listing, i + 1, Len(listing))
  /\ UNCHANGED <<indexFile, indexing, original, syncs, report, running, cmd>>

\* The ids a client can take from the search endpoint, as URL segments.
ApiIds == {"adrs-0001-a", "tickets-0001-a", "notes", "1", "2"}

NextApi ==
  \/ \E p \in Terminal :
       \/ LoadDocuments(p)
       \/ ScanDir(p)
       \/ LoadFile(p)
  \/ \E id \in ApiIds : GetDocument(id)
  \/ \E i \in 1..Len(listing) : RemoveFile(i)

SpecApi == InitApi /\ [][NextApi]_vars

\* C27: every loaded document carries an id no other loaded document
\* carries, and a GET for the id of a document the search endpoint returned
\* answers with that document.
C27_IdsUniqueAndResolvable ==
  (cmd.name = "api" /\ cmd.op # "none") =>
    /\ \A i, j \in 1..Len(cmd.documents) :
         cmd.documents[i].id = cmd.documents[j].id => i = j
    /\ (cmd.op = "get" /\ \E i \in 1..Len(cmd.documents) :
                             JsString(cmd.documents[i].id) = cmd.requested) =>
         /\ cmd.code = 200
         /\ \E i \in 1..Len(cmd.documents) :
              /\ JsString(cmd.documents[i].id) = cmd.requested
              /\ cmd.documents[i].filePath = cmd.filePath

\* ------------------------------------------------- adr list, adr deprecate

\* The ADR directory before a command: empty, with a file folio new adr
\* wrote, with a file that does not parse, and with files whose names pass
\* the filter of getADRDocuments: one beside a document that only the
\* index synchronizer reads and that does not parse, one deprecated
\* already, one with a status in capitals and a textual id.
AdrListings ==
  {<<>>,
   <<NewDocument(NewName(1, "use-tla"), "Use TLA", "adr.md")>>,
   <<DocFile("\\dd-b.md", FALSE, EmptyFm)>>,
   <<DocFile("\\d-a.md", TRUE, [title |-> Str("Use TLA"), id |-> Num("4")]),
     DocFile("my doc.md", FALSE, EmptyFm)>>,
   <<DocFile("\\d-a.md", TRUE, [title |-> Str("Use TLA"), status |-> Str("deprecated")]),
     DocFile("\\dd-b.md", TRUE, [title |-> Str("Pick DB!"), status |-> Str("Accepted"),
                                 id |-> Str("x")])>>,
   <<DocFile("\\dd-b.md", TRUE, [title |-> Str("Pick DB!"), status |-> Str("Accepted"),
                                 id |-> Str("x")]),
     DocFile("\\d-a.md", TRUE, EmptyFm)>>}

InitAdr ==
  /\ listing \in AdrListings
  /\ indexing = [columns |-> <<"id", "title", "status">>, format |-> "table"]
  /\ indexFile = NoFile
  /\ original = NoFile
  /\ syncs = <<>>
  /\ report = NoReport
  /\ running = AllIdle
  /\ cmd = NoCmd

\* data.status || "unknown"
AdrStatus(f) ==
  IF Has(f.fm, "status") /\ Truthy(f.fm.status) THEN f.fm.status.s ELSE "unknown"

\* String.prototype.toLowerCase on the statuses at hand.
ToLowerCase(s) ==
  CASE s \in {"Accepted", "ACCEPTED"} -> "accepted"
    [] s = "Proposed" -> "proposed"
    [] OTHER -> s

\* adr.filename.includes(adrId) for the names that pass the filter and the
\* ids given on the command line.
FilenameIncludes(filename, adrId) ==
  \/ adrId = "a" /\ filename = "\\d-a.md"
  \/ adrId = "d-b" /\ filename = "\\dd-b.md"

\* The ids given to adr deprecate: the text of every id getADRDocuments
\* computes, parts of file names, an id of a front matter, a number.
DeprecateIds == {"NaN", "a", "d-b", "x", "1"}

\* The options object commander hands to handleDeprecate: an option that
\* was not given reads as undefined, written "" here, and --dry-run is
\* stored under dryRun.
DeprecateOptions ==
  {[reason |-> "", supersededBy |-> "", dryRun |-> FALSE],
   [reason |-> "old", supersededBy |-> "2", dryRun |-> FALSE],
   [reason |-> "", supersededBy |-> "", dryRun |-> TRUE]}

\* The options of adr list: --status, "" when it was not given, and
\* --format with its default.
ListOptions ==
  {[status |-> "", format |-> "table"], [status |-> "", format |-> "list"],
   [status |-> "deprecated", format |-> "table"],
   [status |-> "ACCEPTED", format |-> "list"]}

\* adrs.find in handleDeprecate: the first ADR whose id as text, whose
\* file name or whose front-matter id matches; 0 when none does.  The id
\* of every ADR is NaN.
DeprecateTarget(adrs, adrId) ==
  LET hits == {i \in 1..Len(adrs) :
                 \/ adrId = "NaN"
                 \/ FilenameIncludes(adrs[i].name, adrId)
                 \/ (Has(adrs[i].fm, "id") /\ adrs[i].fm.id = Str(adrId))}
  IN IF hits = {} THEN 0 ELSE CHOOSE i \in hits : \A j \in hits : i <= j

\* The updates of handleDeprecate spread over the front matter read.
DeprecateUpdates(fm, options) ==
  (IF options.supersededBy # "" THEN "superseded_by" :> Str(options.supersededBy)
   ELSE EmptyFm)
  @@ (IF options.reason # "" THEN "deprecation_reason" :> Str(options.reason)
      ELSE EmptyFm)
  @@ ("status" :> Str("deprecated")) @@ ("deprecated_date" :> Str(Today)) @@ fm

\* What adr list prints: one row per ADR that passes the status filter,
\* compared in lower case, with the id padded to four places.
ListReport(job, adrs) ==
  LET options == job.args[1]
      filteredADRs ==
        IF options.status # ""
        THEN SelectSeq(adrs, LAMBDA f :
                         ToLowerCase(AdrStatus(f)) = ToLowerCase(options.status))
        ELSE adrs
  IN [name |-> "adr-list", dir |-> job.report.dir, options |-> options,
      threw |-> FALSE, exitCode |-> 0, adrs |-> NamesOf(adrs),
      shown |-> [i \in 1..Len(filteredADRs) |->
                   [id |-> "0NaN", title |-> AdrTitle(filteredADRs[i]),
                    status |-> AdrStatus(filteredADRs[i]),
                    filename |-> filteredADRs[i].name]]]

\* The handler after getADRDocuments has returned the ADRs, up to its next
\* await.  adr list prints; adr deprecate throws when no ADR matches, stops
\* at an ADR that is deprecated or when options["dry-run"] is set, and
\* otherwise goes on to write the document.
AdrsRead(p, job, adrs) ==
  IF job.name = "adr-list"
  THEN /\ cmd' = ListReport(job, adrs)
       /\ running' = [running EXCEPT ![p] = Idle]
  ELSE LET target == DeprecateTarget(adrs, job.args[1])
           options == job.args[2]
       IN IF target = 0
          THEN /\ cmd' = [job.report EXCEPT !.outcome = "missing", !.exitCode = 1]
               /\ running' = [running EXCEPT ![p] = Idle]
          ELSE IF AdrStatus(adrs[target]) = "deprecated"
          THEN /\ cmd' = [job.report EXCEPT !.outcome = "already",
                                            !.target = adrs[target].name]
               /\ running' = [running EXCEPT ![p] = Idle]
          ELSE IF Option(options, "dry-run")
          THEN /\ cmd' = [job.report EXCEPT !.outcome = "dry-run",
                                            !.target = adrs[target].name]
               /\ running' = [running EXCEPT ![p] = Idle]
          ELSE /\ running' = [running EXCEPT ![p] =
                    [job EXCEPT !.pc = "update", !.docs = adrs,
                                !.file = [adrs[target] EXCEPT
                                            !.fm = DeprecateUpdates(@, options)]]]
               /\ UNCHANGED cmd

\* getADRDocuments up to its first readFile: readdir and the filter of the
\* names.  Without a name that passes the handler goes on at once.
GetADRDocuments(p, job) ==
  LET names == NamesOf(AdrFilesOf(listing))
  IN IF Len(names) = 0 THEN AdrsRead(p, job, <<>>)
     ELSE /\ running' = [running EXCEPT ![p] =
               [job EXCEPT !.pc = "adrs", !.names = names, !.at = 1, !.docs = <<>>]]
          /\ UNCHANGED cmd

\* folio adr list [--status s] [--format f]
HandleList(p, options) ==
  /\ running[p].pc = "idle"
  /\ GetADRDocuments(p, [Idle EXCEPT !.name = "adr-list", !.args = <<options>>,
                                     !.report = [name |-> "adr-list", dir |-> listing]])
  /\ UNCHANGED <<listing, indexFile, indexing, original, syncs, report>>

\* folio adr deprecate <id> [--reason r] [--superseded-by id] [--dry-run]
HandleDeprecate(p, adrId, options) ==
  /\ running[p].pc = "idle"
  /\ Started < MaxSyncs
  /\ GetADRDocuments(p, [Idle EXCEPT !.name = "deprecate", !.args = <<adrId, options>>,
                                     !.report = [name |-> "deprecate", adrId |-> adrId,
                                                 options |-> options, dir |-> listing,
                                                 outcome |-> "", target |-> "",
                                                 exitCode |-> 0]])
  /\ UNCHANGED <<listing, indexFile, indexing, original, syncs, report>>

\* getADRDocuments, one turn of its loop: the next file is read as it is
\* now and parsed.  A file that is gone or does not parse makes the command
\* exit with 1; after the last file the handler goes on.
ReadAdr(p) ==
  LET job == running[p]
      name == job.names[job.at]
      gone == ~Present(listing, name)
      f == FileNamed(listing, name)
      adrs == Append(job.docs, f)
  IN /\ job.pc = "adrs"
     /\ IF gone \/ ~f.parses
        THEN /\ cmd' = IF job.name = "adr-list"
                       THEN [name |-> "adr-list", dir |-> job.report.dir,
                             options |-> job.args[1], threw |-> TRUE, exitCode |-> 1,
                             adrs |-> <<>>, shown |-> <<>>]
                       ELSE [job.report EXCEPT !.outcome = "threw", !.exitCode = 1]
             /\ running' = [running EXCEPT ![p] = Idle]
        ELSE IF job.at < Len(job.names)
        THEN /\ running' = [running EXCEPT ![p] = [job EXCEPT !.at = @ + 1, !.docs = adrs]]
             /\ UNCHANGED cmd
        ELSE AdrsRead(p, job, adrs)
     /\ UNCHANGED <<listing, indexFile, indexing, original, syncs, report>>

\* updateADRDocument: the document is written to its path with the updates
\* spread over the front matter that was read; a file that has gone in the
\* meantime is created anew.  The call of updateIndexFile follows.
UpdateADRDocument(p) ==
  LET job == running[p]
      present == Present(listing, job.file.name)
      done == [job.report EXCEPT !.outcome = "deprecated", !.target = job.file.name]
  IN /\ job.pc = "update"
     /\ \E pos \in 0..Len(listing) :
          /\ present => pos = 0
          /\ listing' = IF present
                        THEN [i \in 1..Len(listing) |->
                                IF listing[i].name = job.file.name THEN job.file
                                ELSE listing[i]]
                        ELSE InsertAt(listing, pos, job.file)
     /\ cmd' = done
     /\ running' = [running EXCEPT ![p] =
                      [job EXCEPT !.pc = "list", !.outcome = "deprecated", !.report = done]]
     /\ UNCHANGED <<indexFile, indexing, original, syncs, report>>

NextAdr ==
  \/ \E p \in Terminal :
       \/ \E options \in ListOptions : HandleList(p, options)
       \/ \E adrId \in DeprecateIds, options \in DeprecateOptions :
            HandleDeprecate(p, adrId, options)
       \/ ReadAdr(p)
       \/ UpdateADRDocument(p)
       \/ Started < MaxSyncs /\ GenerateName(p, "adr", "Use TLA", "adr.md")
       \/ WriteDoc(p)
       \/ ListDocs(p)
       \/ ReadDocs(p)
       \/ ReadIndex(p)
       \/ WriteIndex(p)
       \/ GenerateNav(p)
  \/ /\ \E p \in Terminal : running[p].pc \in {"adrs", "update"}
     /\ \E i \in 1..Len(listing) : DeleteFile(i)

SpecAdr == InitAdr /\ [][NextAdr]_vars

\* The names of a directory that end in .md or .mdx, are not index.md and
\* begin with decimal digits.
NumberedDocs(dir) ==
  SelectSeq(dir, LAMBDA f : IsDocFile(f.name) /\ LeadingNumber(f.name) > 0)

\* C30: getADRDocuments returns the .md and .mdx files of the ADR directory
\* whose names begin with a number, index.md excepted, in the order of that
\* number; the files folio new adr creates are among them.
C30_NumberedFilesReturned ==
  (cmd.name = "adr-list" /\ ~cmd.threw) =>
    /\ {cmd.adrs[i] : i \in 1..Len(cmd.adrs)}
         = {NumberedDocs(cmd.dir)[i].name : i \in 1..Len(NumberedDocs(cmd.dir))}
    /\ \A i, j \in 1..Len(cmd.adrs) :
         i < j => LeadingNumber(cmd.adrs[i]) <= LeadingNumber(cmd.adrs[j])

====
